---- MODULE Spec2Model ----
(***************************************************************************)
(* Model of the medical-bill amount detection pipeline: extraction,        *)
(* normalization, classification (remote first, rule-based fallback) and   *)
(* final output generation with provenance.                                *)
(*                                                                         *)
(* Conventions.  Texts and tokens are TLA+ strings, read character by      *)
(* character with Ch.  Amounts (Python floats rounded to two decimals)     *)
(* are integers counted in hundredths (1200.0 is 120000).  Confidences     *)
(* are integers counted in hundredths once rounded (0.74 is 74).  A        *)
(* round-half case of Python's round(x, 2), whose direction depends on     *)
(* the binary representation of x, is resolved by a parameter `up' over    *)
(* which the actions quantify.                                             *)
(***************************************************************************)
EXTENDS Integers, Sequences, FiniteSets, TLC

VARIABLES
    \* ---- /debug/step2-normalization: NormalizationService.process_tokens
    npc,        \* "idle", "normalized", "renormalized"
    ntokens,    \* the request's token list
    nres,       \* the NormalizationOutput returned
    nres2,      \* the NormalizationOutput of the rendered amounts
    \* ---- one call of a stage's confidence function
    cpc,        \* "idle", or the stage whose function was called
    cin,        \* the arguments of the call
    cout,       \* the confidence returned, as the fraction num/den
    \* ---- /extract-amounts: one run of the pipeline
    pc,                     \* "start", "extracted", "normalized", "classified", "done"
    file,                   \* whether the request carries an uploaded file
    txt,                    \* the sanitized text, or the text the OCR engine read
    ocr_result,             \* the OCROutput of step 1
    normalization_result,   \* the NormalizationOutput of step 2
    gemini_response,        \* what the remote service answered in step 3
    classification_result,  \* the ClassificationOutput of step 3
    returned,               \* what the handler returned (or raised)
    trace,                  \* the stages entered so far, in order
    raised,                 \* the stage an exception came from, or "none"
    \* ---- one call of /debug/step3-classification or of the assembler
    spc,        \* "idle", "classified" or "assembled"
    sin,        \* the arguments of the call
    sout        \* what the call returned

normVars == <<npc, ntokens, nres, nres2>>
confVars == <<cpc, cin, cout>>
stepVars == <<spc, sin, sout>>
pipeVars == <<pc, file, txt, ocr_result, normalization_result, gemini_response,
              classification_result, returned, trace, raised>>
vars == <<npc, ntokens, nres, nres2, cpc, cin, cout,
          pc, file, txt, ocr_result, normalization_result, gemini_response,
          classification_result, returned, trace, raised, spc, sin, sout>>

(***************************************************************************)
(* Characters and strings                                                  *)
(***************************************************************************)
Ch(s, i) == SubSeq(s, i, i)

DigitChars == {"0", "1", "2", "3", "4", "5", "6", "7", "8", "9"}
IsDigit(c) == c \in DigitChars

DigitVal(c) ==
    CASE c = "0" -> 0 [] c = "1" -> 1 [] c = "2" -> 2 [] c = "3" -> 3
      [] c = "4" -> 4 [] c = "5" -> 5 [] c = "6" -> 6 [] c = "7" -> 7
      [] c = "8" -> 8 [] c = "9" -> 9

DigitChar(d) == Ch("0123456789", d + 1)

UpperChars == "ABCDEFGHIJKLMNOPQRSTUVWXYZ"
LowerChars == "abcdefghijklmnopqrstuvwxyz"

IsUpper(c) == \E i \in 1..26 : Ch(UpperChars, i) = c
IsLowerCh(c) == \E i \in 1..26 : Ch(LowerChars, i) = c

\* str.lower() on one character
LowerCh(c) ==
    IF IsUpper(c)
    THEN Ch(LowerChars, CHOOSE i \in 1..26 : Ch(UpperChars, i) = c)
    ELSE c

\* The character-wise operators halve the string instead of walking it, so
\* that the evaluation depth grows with the logarithm of the length.
Left(s) == SubSeq(s, 1, Len(s) \div 2)
Right(s) == SubSeq(s, (Len(s) \div 2) + 1, Len(s))

\* str.lower()
RECURSIVE ToLower(_)
ToLower(s) ==
    IF s = "" THEN ""
    ELSE IF Len(s) = 1 THEN LowerCh(s)
    ELSE ToLower(Left(s)) \o ToLower(Right(s))

\* the regex classes \w and \s on the characters the texts use
IsWordCh(c) == IsDigit(c) \/ IsUpper(c) \/ IsLowerCh(c) \/ c = "_"
IsSpaceCh(c) == c \in {" ", "\t", "\n", "\r"}

\* Python's  sub in s
Contains(sub, s) ==
    \E i \in 1..(Len(s) - Len(sub) + 1) : SubSeq(s, i, i + Len(sub) - 1) = sub

StartsWith(s, p) == Len(s) >= Len(p) /\ SubSeq(s, 1, Len(p)) = p
EndsWith(s, p) == Len(s) >= Len(p) /\ SubSeq(s, Len(s) - Len(p) + 1, Len(s)) = p

AllDigits(s) == \A i \in 1..Len(s) : IsDigit(Ch(s, i))

\* str.isdigit(): non-empty and all digits
IsDigitStr(s) == s # "" /\ AllDigits(s)

\* str.replace(a, "") and str.replace(a, b) for one-character a
RECURSIVE ReplaceCh(_, _, _)
ReplaceCh(s, a, b) ==
    IF s = "" THEN ""
    ELSE IF Len(s) = 1 THEN (IF s = a THEN b ELSE s)
    ELSE ReplaceCh(Left(s), a, b) \o ReplaceCh(Right(s), a, b)

\* str.count(c) for one character
CountCh(s, c) == Cardinality({i \in 1..Len(s) : Ch(s, i) = c})

\* the characters of s that satisfy no removal: re.sub(r'[set]+', '', s)
RECURSIVE RemoveChars(_, _)
RemoveChars(s, set) ==
    IF s = "" THEN ""
    ELSE IF Len(s) = 1 THEN (IF s \in set THEN "" ELSE s)
    ELSE RemoveChars(Left(s), set) \o RemoveChars(Right(s), set)

\* str.lstrip / str.rstrip / str.strip of a character set
RECURSIVE LStrip(_, _)
LStrip(s, set) ==
    IF s # "" /\ Ch(s, 1) \in set THEN LStrip(Tail(s), set) ELSE s

RECURSIVE RStrip(_, _)
RStrip(s, set) ==
    IF s # "" /\ Ch(s, Len(s)) \in set
    THEN RStrip(SubSeq(s, 1, Len(s) - 1), set) ELSE s

Strip(s, set) == RStrip(LStrip(s, set), set)

WhiteSpace == {" ", "\t", "\n", "\r"}

\* str.split(sep) for a one-character separator: a sequence of strings
RECURSIVE SplitAcc(_, _, _)
SplitAcc(s, sep, cur) ==
    IF s = "" THEN <<cur>>
    ELSE IF Ch(s, 1) = sep THEN <<cur>> \o SplitAcc(Tail(s), sep, "")
    ELSE SplitAcc(Tail(s), sep, cur \o Ch(s, 1))

Split(s, sep) == SplitAcc(s, sep, "")

\* "".join(parts)
RECURSIVE Concat(_)
Concat(parts) ==
    IF parts = <<>> THEN "" ELSE Head(parts) \o Concat(Tail(parts))

\* int(digits) for a digit string ("" is 0)
RECURSIVE NatOf(_)
NatOf(s) ==
    IF s = "" THEN 0
    ELSE NatOf(SubSeq(s, 1, Len(s) - 1)) * 10 + DigitVal(Ch(s, Len(s)))

\* str(n) for a natural number
RECURSIVE NatStr(_)
NatStr(n) ==
    IF n < 10 THEN DigitChar(n) ELSE NatStr(n \div 10) \o DigitChar(n % 10)

RECURSIVE SeqSum(_)
SeqSum(s) == IF s = <<>> THEN 0 ELSE Head(s) + SeqSum(Tail(s))

SeqToSet(s) == {s[i] : i \in 1..Len(s)}

Min2(a, b) == IF a <= b THEN a ELSE b
Max2(a, b) == IF a >= b THEN a ELSE b

(***************************************************************************)
(* Rounding.  Round2 is round(num/den * 100) for a non-negative rational;  *)
(* an exact half goes up when `up' holds and down otherwise.               *)
(***************************************************************************)
Round2(num, den, up) ==
    LET q == (num * 100) \div den
        r == (num * 100) % den
    IN  IF 2 * r > den \/ (2 * r = den /\ up) THEN q + 1 ELSE q

(***************************************************************************)
(* Step 2: NormalizationService                                            *)
(***************************************************************************)
NoNumber == -1

ocr_digit_corrections ==
    << <<"O", "0">>, <<"o", "0">>, <<"I", "1">>, <<"l", "1">>, <<"|", "1">>,
       <<"S", "5">>, <<"s", "5">>, <<"G", "6">>, <<"B", "8">>, <<"g", "9">>,
       <<"Z", "2">> >>

RECURSIVE ApplyCorrections(_, _)
ApplyCorrections(s, table) ==
    IF table = <<>> THEN s
    ELSE ApplyCorrections(ReplaceCh(s, Head(table)[1], Head(table)[2]), Tail(table))

apply_ocr_corrections(token) == ApplyCorrections(token, ocr_digit_corrections)

\* re.sub(r'\.{2,}', '.', s)
RECURSIVE CollapseDots(_)
CollapseDots(s) ==
    IF Len(s) < 2 THEN s
    ELSE IF Ch(s, 1) = "." /\ Ch(s, 2) = "." THEN CollapseDots(Tail(s))
    ELSE Ch(s, 1) \o CollapseDots(Tail(s))

\* a slip: the first substitution removing white space only
cleanup_patterns_keep_commas(s) ==
    Strip(CollapseDots(RemoveChars(s, WhiteSpace)), {"."})

\* the three substitutions, in the order of the table
cleanup_patterns(s) ==
    LET s1 == RemoveChars(s, {","} \cup WhiteSpace)
        s2 == CollapseDots(s1)
    IN  Strip(s2, {"."})

CurrencyGlyphs == {"₹", "$", "€", "£"}

_handle_special_cases(token) ==
    LET parts == Split(token, ",")
        n == Len(parts)
        grouped ==
            /\ Contains(",", token)
            /\ n >= 2
            /\ Len(parts[1]) <= 3 /\ IsDigitStr(parts[1])
            /\ \A i \in 2..(n - 1) : Len(parts[i]) = 2 /\ IsDigitStr(parts[i])
            /\ 1 <= Len(parts[n]) /\ Len(parts[n]) <= 3
            /\ IsDigitStr(RemoveChars(parts[n], {"."}))
        t1 == IF grouped THEN RemoveChars(token, {","}) ELSE token
        t2 == IF EndsWith(t1, "%") THEN SubSeq(t1, 1, Len(t1) - 1) ELSE t1
        t3 == LStrip(t2, CurrencyGlyphs)
        dparts == Split(t3, ".")
        m == Len(dparts)
    IN  IF CountCh(t3, ".") > 1
        THEN Concat(SubSeq(dparts, 1, m - 1)) \o "." \o dparts[m]
        ELSE t3

clean_token(token) ==
    IF token = "" THEN ""
    ELSE _handle_special_cases(cleanup_patterns(apply_ocr_corrections(token)))

GeneralMin == 1
GeneralMax == 10000000

\* a slip: a lower limit of 0 instead of 0.01
validate_amount_from_zero(amount) == 0 <= amount /\ amount <= GeneralMax

\* amount_ranges['general'] = (0.01, 100000), in hundredths
validate_amount(amount) == GeneralMin <= amount /\ amount <= GeneralMax

\* a slip: the pattern r'^\d+$', which rejects a decimal point
MatchesNumber_integer(token) == token # "" /\ AllDigits(token)

\* re.match(r'^\d*\.?\d+$', token)
MatchesNumber(token) ==
    /\ token # ""
    /\ IsDigit(Ch(token, Len(token)))
    /\ \/ AllDigits(token)
       \/ /\ CountCh(token, ".") = 1
          /\ AllDigits(RemoveChars(token, {"."}))

\* round(float(token), 2) in hundredths, for a token MatchesNumber accepts
RoundedValue(token, up) ==
    IF ~Contains(".", token) THEN NatOf(token) * 100
    ELSE
        LET dparts == Split(token, ".")
            ip == dparts[1]
            fp == dparts[2]
            f2 == SubSeq(fp \o "00", 1, 2)
            rest == IF Len(fp) > 2 THEN SubSeq(fp, 3, Len(fp)) ELSE ""
            d == IF rest = "" THEN 0 ELSE DigitVal(Ch(rest, 1))
            more == rest # "" /\ \E i \in 2..Len(rest) : Ch(rest, i) # "0"
            inc == IF d > 5 \/ (d = 5 /\ (more \/ up)) THEN 1 ELSE 0
        IN  NatOf(ip) * 100 + NatOf(f2) + inc

convert_to_number(token, up) ==
    IF token = "" THEN NoNumber
    ELSE IF ~MatchesNumber(token) THEN NoNumber
    ELSE RoundedValue(token, up)

\* the amounts of s without the later repetitions (loop at lines 207-212)
RECURSIVE UniqueAcc(_, _)
UniqueAcc(s, acc) ==
    IF s = <<>> THEN acc
    ELSE UniqueAcc(Tail(s),
                   IF Head(s) \in SeqToSet(acc) THEN acc ELSE Append(acc, Head(s)))

\* a slip: the duplicates are kept
remove_duplicates_kept(normalized_amounts) == normalized_amounts

remove_duplicates(normalized_amounts) == UniqueAcc(normalized_amounts, <<>>)

RECURSIVE CountValid(_)
CountValid(amounts) ==
    IF amounts = <<>> THEN 0
    ELSE (IF validate_amount(Head(amounts)) THEN 1 ELSE 0) + CountValid(Tail(amounts))

\* The confidence as the fraction num/den, before round(confidence, 2).
\* With n tokens, u amounts of which r are in range: den = 1000*n*u and
\* num = 0.7*u/n + 0.2*r/u, times 0.8 if u > 10, plus 0.1 if the mean amount
\* is in [100, 5000], capped at 1.
calculate_normalization_confidence(original_tokens, normalized_amounts) ==
    LET n == Len(original_tokens)
        u == Len(normalized_amounts)
        r == CountValid(normalized_amounts)
        den == 1000 * n * u
        base == 700 * u * u + 200 * r * n
        pen == IF u > 10 THEN (base * 8) \div 10 ELSE base
        total == SeqSum(normalized_amounts)
        boost == IF 10000 * u <= total /\ total <= 500000 * u
                 THEN 100 * n * u ELSE 0
    IN  IF n = 0 \/ u = 0 THEN [num |-> 0, den |-> 1]
        ELSE [num |-> Min2(pen + boost, den), den |-> den]

\* the amounts appended by the loop at lines 187-204, in token order
RECURSIVE ConvertAll(_, _)
ConvertAll(raw_tokens, up) ==
    IF raw_tokens = <<>> THEN <<>>
    ELSE LET amount == convert_to_number(clean_token(Head(raw_tokens)), up)
         IN  (IF amount # NoNumber /\ validate_amount(amount)
              THEN <<amount>> ELSE <<>>) \o ConvertAll(Tail(raw_tokens), up)

\* NormalizationOutput's constructor rejects a confidence outside [0, 1];
\* process_tokens re-raises it as ValueError (raised = TRUE).
NormalizeWith(raw_tokens, unique_amounts, up) ==
    LET c == calculate_normalization_confidence(raw_tokens, unique_amounts)
        confidence == Round2(c.num, c.den, up)
    IN  IF confidence < 0 \/ confidence > 100
        THEN [raised |-> TRUE, normalized_amounts |-> <<>>,
              normalization_confidence |-> 0]
        ELSE [raised |-> FALSE, normalized_amounts |-> unique_amounts,
              normalization_confidence |-> confidence]

process_tokens(raw_tokens, up) ==
    NormalizeWith(raw_tokens, remove_duplicates(ConvertAll(raw_tokens, up)), up)

\* str(amount) of a float with at most two decimals: "1200.0", "12.5", "0.05"
RenderFloat(amount) ==
    LET ip == amount \div 100
        fp == amount % 100
    IN  NatStr(ip) \o "." \o
        (IF fp % 10 = 0 THEN DigitChar(fp \div 10)
         ELSE DigitChar(fp \div 10) \o DigitChar(fp % 10))

RECURSIVE RenderTokens(_)
RenderTokens(amounts) ==
    IF amounts = <<>> THEN <<>>
    ELSE <<RenderFloat(Head(amounts))>> \o RenderTokens(Tail(amounts))

(***************************************************************************)
(* /debug/step2-normalization: any token list may be posted.               *)
(***************************************************************************)
MaxTokens == 3

NormTokenUniverse ==
    {"5000", "1000", "5OOO", "1,200.00", "O0O", "12.345", "12.35",
     "200000", "abc", "12,345.5", "1,2,3"}

SeqsUpTo(S, n) == UNION {[1..k -> S] : k \in 0..n}

NoNormalization ==
    [raised |-> FALSE, normalized_amounts |-> <<>>, normalization_confidence |-> 0]

NormIdle ==
    /\ npc = "idle"
    /\ ntokens = <<>>
    /\ nres = NoNormalization
    /\ nres2 = NoNormalization

NoCall ==
    [text |-> "", tokens |-> <<>>, ocr_confidence |-> 0,
     types |-> <<>>, used_gemini |-> FALSE]

ConfIdle ==
    /\ cpc = "idle"
    /\ cin = NoCall
    /\ cout = [num |-> 0, den |-> 1]

NoExtraction ==
    [raised |-> FALSE, raw_tokens |-> <<>>, currency_hint |-> "INR", confidence |-> 0]

NoClassification ==
    [raised |-> FALSE, amounts |-> <<>>, confidence |-> 0,
     used_gemini |-> FALSE, calls |-> <<>>]

NoResponse == [kind |-> "none", amounts_kind |-> "absent", items |-> <<>>]

NoResult ==
    [kind |-> "none", status |-> "none", reason |-> "", currency |-> "",
     amounts |-> <<>>]

PipeIdle ==
    /\ pc = "start"
    /\ file = FALSE
    /\ txt = ""
    /\ ocr_result = NoExtraction
    /\ normalization_result = NoNormalization
    /\ gemini_response = NoResponse
    /\ classification_result = NoClassification
    /\ returned = NoResult
    /\ trace = <<>>
    /\ raised = "none"

NoStep == [text |-> "", amounts |-> <<>>, currency |-> "", response |-> NoResponse]

StepIdle ==
    /\ spc = "idle"
    /\ sin = NoStep
    /\ sout = <<>>

NormInit == NormIdle /\ ConfIdle /\ PipeIdle /\ StepIdle

debug_step2_normalization ==
    /\ npc = "idle"
    /\ \E tokens \in SeqsUpTo(NormTokenUniverse, MaxTokens), up \in BOOLEAN :
          /\ ntokens' = tokens
          /\ nres' = process_tokens(tokens, up)
    /\ npc' = "normalized"
    /\ UNCHANGED <<nres2, confVars, pipeVars, stepVars>>

\* the amounts returned, posted again as tokens
debug_step2_again ==
    /\ npc = "normalized"
    /\ ~nres.raised
    /\ \E up \in BOOLEAN :
          nres2' = process_tokens(RenderTokens(nres.normalized_amounts), up)
    /\ npc' = "renormalized"
    /\ UNCHANGED <<ntokens, nres, confVars, pipeVars, stepVars>>

NormNext == debug_step2_normalization \/ debug_step2_again

SpecNorm == NormInit /\ [][NormNext]_vars

(***************************************************************************)
(* Properties of the normalizer (SpecNorm)                                 *)
(***************************************************************************)
FirstIndex(s, x) ==
    CHOOSE k \in 1..Len(s) : s[k] = x /\ \A m \in 1..(k - 1) : s[m] # x

\* C9: NormalizationResult.amounts holds no two equal values, and it is the
\* sequence of the valid in-range values of the tokens, in input order, with
\* every later repetition of a value removed.
C9_AmountsDeduplicated ==
    (npc # "idle" /\ ~nres.raised) =>
        \E up \in BOOLEAN :
            LET v == ConvertAll(ntokens, up)
                a == nres.normalized_amounts
            IN  /\ \A i, j \in 1..Len(a) : i # j => a[i] # a[j]
                /\ SeqToSet(a) = SeqToSet(v)
                /\ \A i, j \in 1..Len(a) :
                      i < j => FirstIndex(v, a[i]) < FirstIndex(v, a[j])

\* the values 5000, 1000, 5000 have given [5000, 1000]
C9_Witness ==
    /\ npc = "normalized"
    /\ ntokens = <<"5000", "1000", "5000">>
    /\ nres.normalized_amounts = <<500000, 100000>>

\* C10: normalizing the amounts of a result, rendered as tokens, yields the
\* same set of amounts.
C10_NormalizeIdempotent ==
    (npc = "renormalized" /\ ~nres2.raised) =>
        SeqToSet(nres2.normalized_amounts) = SeqToSet(nres.normalized_amounts)

\* a result with a whole and a fractional amount has been normalized again
C10_Witness ==
    /\ npc = "renormalized"
    /\ ~nres2.raised
    /\ 120000 \in SeqToSet(nres2.normalized_amounts)
    /\ 1235 \in SeqToSet(nres2.normalized_amounts)
    /\ Len(ntokens) > Len(nres.normalized_amounts)

(***************************************************************************)
(* The confidence functions of the three stages                            *)
(***************************************************************************)
medical_words == <<"bill", "amount", "total", "room", "pharmacy", "hospital">>

\* the number of the words of a list that occur in s
RECURSIVE CountIn(_, _)
CountIn(words, s) ==
    IF words = <<>> THEN 0
    ELSE (IF Contains(Head(words), s) THEN 1 ELSE 0) + CountIn(Tail(words), s)

\* In thousandths, for an OCR confidence in hundredths:
\* ocr*0.6 + min(len*0.1, 0.3) + min(keywords*0.02, 0.1), capped at 1.
calculate_extraction_confidence(text, tokens, ocr_confidence) ==
    LET keyword_count == CountIn(medical_words, ToLower(text))
    IN  IF tokens = <<>> THEN 0
        ELSE Min2(6 * ocr_confidence + Min2(Len(tokens) * 100, 300)
                  + Min2(keyword_count * 20, 100), 1000)

good_patterns ==
    << <<"total_bill", "paid">>, <<"total_bill", "due">>,
       <<"consultation", "medicine">>, <<"total_bill", "tax">> >>

TypesOf(classified_amounts) ==
    [i \in 1..Len(classified_amounts) |-> classified_amounts[i].type]

\* a slip: the sum is returned without min(base_confidence, 1.0)
ClampConfidence_missing(base_confidence) == base_confidence

ClampConfidence(base_confidence) == Min2(base_confidence, 100)

\* a slip: the penalty applied when at least half of the amounts are "other"
calculate_classification_confidence_half(classified_amounts, used_gemini) ==
    LET types_found == TypesOf(classified_amounts)
        present == SeqToSet(types_found)
        n == Len(classified_amounts)
        base == IF used_gemini THEN 80 ELSE 60
        variety == IF Cardinality(present) > 1 THEN 10 ELSE 0
        patterns == 5 * Cardinality({k \in 1..Len(good_patterns) :
                        \A j \in 1..2 : good_patterns[k][j] \in present})
        other_count == Cardinality({i \in 1..n : types_found[i] = "other"})
        penalty == IF 2 * other_count >= n THEN 20 ELSE 0
    IN  IF n = 0 THEN 0
        ELSE ClampConfidence(base + variety + patterns - penalty)

\* In hundredths: 0.8 or 0.6, +0.1 for variety, +0.05 per good pattern,
\* -0.2 when more than half are "other", capped at 1.
calculate_classification_confidence(classified_amounts, used_gemini) ==
    LET types_found == TypesOf(classified_amounts)
        present == SeqToSet(types_found)
        n == Len(classified_amounts)
        base == IF used_gemini THEN 80 ELSE 60
        variety == IF Cardinality(present) > 1 THEN 10 ELSE 0
        patterns == 5 * Cardinality({k \in 1..Len(good_patterns) :
                        \A j \in 1..2 : good_patterns[k][j] \in present})
        other_count == Cardinality({i \in 1..n : types_found[i] = "other"})
        penalty == IF 2 * other_count > n THEN 20 ELSE 0
    IN  IF n = 0 THEN 0
        ELSE ClampConfidence(base + variety + patterns - penalty)

(***************************************************************************)
(* Calls of the confidence functions on drawn arguments.                   *)
(***************************************************************************)
MaxManyTokens == 12
MaxTypes == 4

\* MaxManyTokens distinct in-range tokens: "100", "200", ...
ManyTokens == [i \in 1..MaxManyTokens |-> NatStr(100 * i)]

ConfTokenLists ==
    {SubSeq(ManyTokens, 1, k) : k \in 0..MaxManyTokens}
        \cup {<<"5000", "1000", "5OOO">>, <<"O0O", "abc">>, <<"12.345", "200000">>}

ConfTexts ==
    {"", "Due 200", "Total bill amount 1200",
     "Hospital pharmacy room: total bill amount 1200"}

OcrConfidences == {0, 32, 33, 50, 100}

ConfTypes ==
    {"total_bill", "paid", "due", "tax", "consultation", "medicine", "other"}

Classified(type) == [type |-> type, value |-> 0, context |-> "", name |-> ""]

ConfInit == NormIdle /\ ConfIdle /\ PipeIdle /\ StepIdle

conf_extraction ==
    /\ cpc = "idle"
    /\ \E text \in ConfTexts, tokens \in ConfTokenLists, ocr \in OcrConfidences :
          /\ cin' = [NoCall EXCEPT !.text = text, !.tokens = tokens,
                                   !.ocr_confidence = ocr]
          /\ cout' = [num |-> calculate_extraction_confidence(text, tokens, ocr),
                      den |-> 1000]
    /\ cpc' = "extraction"
    /\ UNCHANGED <<normVars, pipeVars, stepVars>>

conf_normalization ==
    /\ cpc = "idle"
    /\ \E tokens \in ConfTokenLists, up \in BOOLEAN :
          /\ cin' = [NoCall EXCEPT !.tokens = tokens]
          /\ cout' = calculate_normalization_confidence(
                         tokens, remove_duplicates(ConvertAll(tokens, up)))
    /\ cpc' = "normalization"
    /\ UNCHANGED <<normVars, pipeVars, stepVars>>

conf_classification ==
    /\ cpc = "idle"
    /\ \E types \in SeqsUpTo(ConfTypes, MaxTypes), used_gemini \in BOOLEAN :
          /\ cin' = [NoCall EXCEPT !.types = types, !.used_gemini = used_gemini]
          /\ cout' = [num |-> calculate_classification_confidence(
                                 [i \in 1..Len(types) |-> Classified(types[i])],
                                 used_gemini),
                      den |-> 100]
    /\ cpc' = "classification"
    /\ UNCHANGED <<normVars, pipeVars, stepVars>>

ConfNext == conf_extraction \/ conf_normalization \/ conf_classification

SpecConf == ConfInit /\ [][ConfNext]_vars

\* C6: the confidence produced by the extractor, by the normalizer and by the
\* classifier lies in [0, 1], whatever the text, the OCR confidence, the
\* token list and the classified types, on the remote and the fallback path.
C6_ConfidenceInUnitInterval ==
    cpc # "idle" => (0 <= cout.num /\ cout.num <= cout.den)

\* the classifier's cap was needed: remote path, variety and three good
\* patterns (0.8 + 0.1 + 0.15), and the result is 1
C6_Witness ==
    /\ cpc = "classification"
    /\ cin.used_gemini
    /\ {"total_bill", "paid", "due", "tax"} \subseteq SeqToSet(cin.types)
    /\ cout.num = cout.den

(***************************************************************************)
(* Step 1: OCRService -- token extraction, currency, confidence            *)
(***************************************************************************)
\* the character at position i, "" outside the text
At(text, i) == IF 1 <= i /\ i <= Len(text) THEN Ch(text, i) ELSE ""

\* regex \b between positions i-1 and i
WordBoundary(text, i) == IsWordCh(At(text, i - 1)) # IsWordCh(At(text, i))

\* the number of consecutive digits from position i on
RECURSIVE DigitRun(_, _)
DigitRun(text, i) ==
    IF IsDigit(At(text, i)) THEN 1 + DigitRun(text, i + 1) ELSE 0

\* the first position from i on that holds no white space
RECURSIVE SkipSpaces(_, _)
SkipSpaces(text, i) ==
    IF IsSpaceCh(At(text, i)) THEN SkipSpaces(text, i + 1) ELSE i

\* a prefix matched at position i without regard to case
MatchesNoCase(text, i, word) ==
    /\ i + Len(word) - 1 <= Len(text)
    /\ ToLower(SubSeq(text, i, i + Len(word) - 1)) = ToLower(word)

NoMatch == [end |-> 0, group |-> ""]

RECURSIVE FirstBoundary(_, _)
FirstBoundary(text, ends) ==
    IF ends = <<>> THEN 0
    ELSE IF WordBoundary(text, Head(ends)) THEN Head(ends)
    ELSE FirstBoundary(text, Tail(ends))

\* Pattern 1: (?<!-)\b\d{1,3}(?:,\d{3})*(?:\.\d+)?\b
\* The ends the backtracking matcher tries, in its order: most digits first,
\* most comma groups first, the decimal tail before its absence, longest
\* tail first; the match is the first end at a word boundary.
RECURSIVE CommaGroups(_, _)
CommaGroups(text, p) ==
    IF At(text, p) = "," /\ DigitRun(text, p + 1) >= 3
    THEN 1 + CommaGroups(text, p + 4) ELSE 0

RECURSIVE Pattern1Decimals(_, _)
Pattern1Decimals(q, r) ==
    IF r = 0 THEN <<>> ELSE <<q + 1 + r>> \o Pattern1Decimals(q, r - 1)

Pattern1Tail(text, q) ==
    (IF At(text, q) = "." THEN Pattern1Decimals(q, DigitRun(text, q + 1)) ELSE <<>>)
        \o <<q>>

RECURSIVE Pattern1Groups(_, _, _)
Pattern1Groups(text, p, m) ==
    IF m < 0 THEN <<>>
    ELSE Pattern1Tail(text, p + 4 * m) \o Pattern1Groups(text, p, m - 1)

RECURSIVE Pattern1Digits(_, _, _)
Pattern1Digits(text, i, k) ==
    IF k = 0 THEN <<>>
    ELSE Pattern1Groups(text, i + k, CommaGroups(text, i + k))
             \o Pattern1Digits(text, i, k - 1)

Pattern1At(text, i) ==
    LET e == FirstBoundary(text,
                 Pattern1Digits(text, i, Min2(3, DigitRun(text, i))))
    IN  IF At(text, i - 1) # "-" /\ WordBoundary(text, i) /\ e > 0
        THEN [end |-> e, group |-> SubSeq(text, i, e - 1)]
        ELSE NoMatch

\* Pattern 3: \b(\d{4,5})(?!\d)\b
Pattern3At(text, i) ==
    LET run == DigitRun(text, i)
        ok(k) == /\ run >= k
                 /\ ~IsDigit(At(text, i + k))
                 /\ WordBoundary(text, i + k)
        k == IF ok(5) THEN 5 ELSE IF ok(4) THEN 4 ELSE 0
    IN  IF WordBoundary(text, i) /\ k > 0
        THEN [end |-> i + k, group |-> SubSeq(text, i, i + k - 1)]
        ELSE NoMatch

\* Pattern 4: (?:Rs\.?|₹)\s*(\d{3,6}), re.IGNORECASE
Pattern4At(text, i) ==
    LET p == IF MatchesNoCase(text, i, "Rs")
             THEN (IF At(text, i + 2) = "." THEN i + 3 ELSE i + 2)
             ELSE IF At(text, i) = "₹" THEN i + 1 ELSE 0
        d == SkipSpaces(text, p)
        k == Min2(6, DigitRun(text, d))
    IN  IF p > 0 /\ k >= 3
        THEN [end |-> d + k, group |-> SubSeq(text, d, d + k - 1)]
        ELSE NoMatch

context_keywords == <<"Amount", "Total", "Bill", "Paid", "Due">>

\* Pattern 5: (?:Amount|Total|Bill|Paid|Due)\s*:?\s*(\d{1,6}(?:\.\d{2})?),
\* re.IGNORECASE
Pattern5At(text, i) ==
    LET hits == {j \in 1..Len(context_keywords) :
                    MatchesNoCase(text, i, context_keywords[j])}
        j == CHOOSE x \in hits : \A y \in hits : x <= y
        p == SkipSpaces(text, i + Len(context_keywords[j]))
        c == IF At(text, p) = ":" THEN p + 1 ELSE p
        d == SkipSpaces(text, c)
        k == Min2(6, DigitRun(text, d))
        e == IF At(text, d + k) = "." /\ DigitRun(text, d + k + 1) >= 2
             THEN d + k + 3 ELSE d + k
    IN  IF hits # {} /\ k >= 1
        THEN [end |-> e, group |-> SubSeq(text, d, e - 1)]
        ELSE NoMatch

PatternAt(n, text, i) ==
    CASE n = 1 -> Pattern1At(text, i)
      [] n = 3 -> Pattern3At(text, i)
      [] n = 4 -> Pattern4At(text, i)
      [] n = 5 -> Pattern5At(text, i)

\* the least position of a set of positions, 0 for none
FirstOf(positions) ==
    IF positions = {} THEN 0
    ELSE CHOOSE j \in positions : \A k \in positions : j <= k

\* re.findall: scan from left to right, resume where a match ended
RECURSIVE FindAllFrom(_, _, _)
RECURSIVE FindAllAt(_, _, _)
RECURSIVE FindAllAfter(_, _, _)
FindAllAfter(n, text, m) == <<m.group>> \o FindAllFrom(n, text, m.end)

FindAllAt(n, text, first) ==
    IF first = 0 THEN <<>> ELSE FindAllAfter(n, text, PatternAt(n, text, first))

FindAllFrom(n, text, i) ==
    FindAllAt(n, text,
              FirstOf({j \in i..Len(text) : PatternAt(n, text, j).end > 0}))

FindAll(n, text) == FindAllFrom(n, text, 1)

\* [m for m in matches3 if not (2020 <= int(m) <= 2030) and int(m) >= 1000]
NotYearOrId(m) == ~(2020 <= NatOf(m) /\ NatOf(m) <= 2030) /\ NatOf(m) >= 1000

\* OCRService._clean_token; "" stands for None
_clean_token(token) ==
    IF token = "" THEN ""
    ELSE LET kept == SelectSeq(
                        [i \in 1..Len(token) |-> Ch(token, i)],
                        LAMBDA c : IsDigit(c) \/ c \in {".", ","})
         IN  Strip(Concat(kept), {".", ","})

\* float(s) succeeds on a string of digits, dots and commas exactly when it
\* holds a digit, at most one dot and no comma
FloatParses(s) ==
    /\ \E i \in 1..Len(s) : IsDigit(Ch(s, i))
    /\ CountCh(s, ".") <= 1
    /\ \A i \in 1..Len(s) : IsDigit(Ch(s, i)) \/ Ch(s, i) = "."

MinBillAmount == 40
MaxBillAmount == 500000

\* 40 <= float(token.replace(',', '')) <= 500000
_is_valid_amount(token) ==
    LET s == RemoveChars(token, {","})
        dparts == Split(s, ".")
        ip == NatOf(dparts[1])
        frac == IF Len(dparts) > 1 THEN dparts[2] ELSE ""
        fracZero == \A i \in 1..Len(frac) : Ch(frac, i) = "0"
    IN  /\ FloatParses(s)
        /\ MinBillAmount <= ip
        /\ (ip < MaxBillAmount \/ (ip = MaxBillAmount /\ fracZero))

\* a slip: the loop without the test against seen
RECURSIVE ValidTokens_repeating(_, _)
ValidTokens_repeating(all_tokens, valid_tokens) ==
    IF all_tokens = <<>> THEN valid_tokens
    ELSE LET cleaned == _clean_token(Head(all_tokens))
         IN  ValidTokens_repeating(Tail(all_tokens),
                 IF cleaned # "" /\ _is_valid_amount(cleaned)
                 THEN Append(valid_tokens, cleaned) ELSE valid_tokens)

\* the loop at lines 137-141: clean, validate, keep the first occurrence
RECURSIVE ValidTokens(_, _)
ValidTokens(all_tokens, valid_tokens) ==
    IF all_tokens = <<>> THEN valid_tokens
    ELSE LET cleaned == _clean_token(Head(all_tokens))
         IN  ValidTokens(Tail(all_tokens),
                 IF cleaned # "" /\ cleaned \notin SeqToSet(valid_tokens)
                    /\ _is_valid_amount(cleaned)
                 THEN Append(valid_tokens, cleaned) ELSE valid_tokens)

\* the matches of the patterns ns, in that order; pattern 3's are filtered
RECURSIVE PatternTokens(_, _)
PatternTokens(ns, text) ==
    IF ns = <<>> THEN <<>>
    ELSE SelectSeq(FindAll(Head(ns), text),
                   LAMBDA m : Head(ns) # 3 \/ NotYearOrId(m))
             \o PatternTokens(Tail(ns), text)

AllPatternTokens(text) == PatternTokens(<<1, 3, 4, 5>>, text)

extract_numeric_tokens(text) == ValidTokens(AllPatternTokens(text), <<>>)

\* The patterns are searched in text.lower() without re.IGNORECASE, each here
\* by the literal it needs: Rs\.? needs "Rs", rupees? needs "rupee", ...
currency_patterns ==
    << [currency |-> "INR", needs |-> <<"Rs", "INR", "₹", "rupee", "paisa">>],
       [currency |-> "USD", needs |-> <<"$", "USD", "dollar">>],
       [currency |-> "EUR", needs |-> <<"€", "EUR", "euro">>] >>

RECURSIVE FirstCurrency(_, _)
FirstCurrency(patterns, text_lower) ==
    IF patterns = <<>> THEN "INR"
    ELSE IF CountIn(Head(patterns).needs, text_lower) > 0
         THEN Head(patterns).currency
         ELSE FirstCurrency(Tail(patterns), text_lower)

detect_currency(text) == FirstCurrency(currency_patterns, ToLower(text))

\* OCRService.process_input once the text and the OCR confidence are known
\* (lines 216-235); OCROutput rejects a confidence outside [0, 1] and the
\* method re-raises it as ValueError (raised = TRUE).
ExtractWith(extracted_text, tokens, ocr_confidence, up) ==
    LET final_confidence ==
            calculate_extraction_confidence(extracted_text, tokens, ocr_confidence)
        confidence == Round2(final_confidence, 1000, up)
    IN  IF confidence < 0 \/ confidence > 100
        THEN [raised |-> TRUE, raw_tokens |-> <<>>, currency_hint |-> "INR",
              confidence |-> 0]
        ELSE [raised |-> FALSE, raw_tokens |-> tokens,
              currency_hint |-> detect_currency(extracted_text),
              confidence |-> confidence]

ExtractFrom(extracted_text, ocr_confidence, up) ==
    ExtractWith(extracted_text, extract_numeric_tokens(extracted_text),
                ocr_confidence, up)

(***************************************************************************)
(* Step 3: GeminiClassificationService                                     *)
(***************************************************************************)
\* Python's None where a string is optional
None == "<None>"

amount_types ==
    {"total_bill", "paid", "due", "discount", "tax",
     "consultation", "medicine", "test", "other"}

keyword_mapping ==
    << [category |-> "total_bill",
        keywords |-> <<"total", "bill", "amount", "sum", "grand total", "net amount">>],
       [category |-> "paid",
        keywords |-> <<"paid", "payment", "received", "cash", "advance">>],
       [category |-> "due",
        keywords |-> <<"due", "balance", "pending", "outstanding", "remaining">>],
       [category |-> "discount",
        keywords |-> <<"discount", "off", "reduction", "concession", "rebate">>],
       [category |-> "tax",
        keywords |-> <<"tax", "gst", "vat", "service tax", "cgst", "sgst", "igst">>],
       [category |-> "consultation",
        keywords |-> <<"consultation", "doctor", "visit", "checkup", "fee">>],
       [category |-> "medicine",
        keywords |-> <<"medicine", "drug", "tablet", "capsule", "prescription", "pharmacy">>],
       [category |-> "test",
        keywords |-> <<"test", "lab", "report", "scan", "x-ray", "blood", "urine", "pathology">>] >>

\* str(int(amount)), f"{amount:.2f}" and f"{int(amount):,}" of an amount
IntStr(amount) == NatStr(amount \div 100)

TwoDecimals(amount) ==
    IntStr(amount) \o "." \o DigitChar((amount % 100) \div 10)
        \o DigitChar(amount % 10)

RECURSIVE Grouped(_)
Grouped(n) ==
    IF n < 1000 THEN NatStr(n)
    ELSE Grouped(n \div 1000) \o "," \o DigitChar((n % 1000) \div 100)
             \o DigitChar((n % 100) \div 10) \o DigitChar(n % 10)

GroupedStr(amount) == Grouped(amount \div 100)

\* re.finditer(re.escape(sub), text): the start positions of the occurrences,
\* from left to right, none overlapping the one before
RECURSIVE OccurrencesFrom(_, _, _)
OccurrencesFrom(sub, text, i) ==
    LET first == FirstOf({j \in i..(Len(text) - Len(sub) + 1) :
                             SubSeq(text, j, j + Len(sub) - 1) = sub})
    IN  IF sub = "" \/ first = 0 THEN <<>>
        ELSE <<first>> \o OccurrencesFrom(sub, text, first + Len(sub))

Occurrences(sub, text) == OccurrencesFrom(sub, text, 1)

\* text[max(0, start - size) : min(len(text), end + size)].strip()
Window(text, start, length, size) ==
    Strip(SubSeq(text, Max2(1, start - size),
                 Min2(Len(text), start + length - 1 + size)), WhiteSpace)

\* the windows around every occurrence of every rendering, in search order
RECURSIVE WindowsOf(_, _, _, _)
WindowsOf(text, hay, renderings, size) ==
    IF renderings = <<>> THEN <<>>
    ELSE LET sub == Head(renderings)
             occ == Occurrences(sub, hay)
         IN  [k \in 1..Len(occ) |-> Window(text, occ[k], Len(sub), size)]
                 \o WindowsOf(text, hay, Tail(renderings), size)

\* the first longest window; the strict comparison keeps the earlier one
RECURSIVE LongestWindow(_, _)
LongestWindow(windows, best) ==
    IF windows = <<>> THEN best
    ELSE LongestWindow(Tail(windows),
             IF Len(Head(windows)) > Len(best) THEN Head(windows) ELSE best)

\* contexts[amount] of extract_context_windows
extract_context_window(text, amount, window_size) ==
    LET amount_strings ==
            <<IntStr(amount), RenderFloat(amount), TwoDecimals(amount),
              IF amount >= 100000 THEN GroupedStr(amount) ELSE IntStr(amount)>>
        best_context ==
            LongestWindow(WindowsOf(text, text, amount_strings, window_size), "")
    IN  IF best_context # "" THEN best_context
        ELSE "Amount: " \o RenderFloat(amount)

RECURSIVE SeqMax(_)
SeqMax(s) ==
    IF Len(s) = 1 THEN s[1] ELSE Max2(Head(s), SeqMax(Tail(s)))

\* sorted(all_amounts, reverse=True)[1]
SecondLargest(all_amounts) ==
    LET top == CHOOSE i \in 1..Len(all_amounts) :
                   all_amounts[i] = SeqMax(all_amounts)
        rest == [k \in 1..(Len(all_amounts) - 1) |->
                    all_amounts[IF k < top THEN k ELSE k + 1]]
    IN  SeqMax(rest)

\* a slip: the second-largest rule tried before the small-amount rule
_apply_amount_pattern_rules_paid_first(amount, all_amounts) ==
    IF amount = SeqMax(all_amounts) /\ Len(all_amounts) > 1
    THEN [type |-> "total_bill", reasoning |-> "largest amount in document"]
    ELSE IF amount % 100 = 0 /\ amount >= 100000
    THEN [type |-> "total_bill", reasoning |-> "large round number"]
    ELSE IF Len(all_amounts) > 1 /\ amount = SecondLargest(all_amounts)
    THEN [type |-> "paid", reasoning |-> "second largest amount"]
    ELSE IF amount <= 50000
    THEN [type |-> "consultation", reasoning |-> "small amount pattern"]
    ELSE [type |-> "other", reasoning |-> "no clear pattern identified"]

_apply_amount_pattern_rules(amount, all_amounts) ==
    IF amount = SeqMax(all_amounts) /\ Len(all_amounts) > 1
    THEN [type |-> "total_bill", reasoning |-> "largest amount in document"]
    ELSE IF amount % 100 = 0 /\ amount >= 100000
    THEN [type |-> "total_bill", reasoning |-> "large round number"]
    ELSE IF amount <= 50000
    THEN [type |-> "consultation", reasoning |-> "small amount pattern"]
    ELSE IF Len(all_amounts) > 1 /\ amount = SecondLargest(all_amounts)
    THEN [type |-> "paid", reasoning |-> "second largest amount"]
    ELSE [type |-> "other", reasoning |-> "no clear pattern identified"]

\* ', '.join(words)
RECURSIVE JoinComma(_)
JoinComma(words) ==
    IF words = <<>> THEN ""
    ELSE IF Len(words) = 1 THEN words[1]
    ELSE Head(words) \o ", " \o JoinComma(Tail(words))

\* the score of one category and the keywords it matched (lines 149-160)
RECURSIVE CategoryScore(_, _, _)
CategoryScore(keywords, combined_text, context) ==
    IF keywords = <<>> THEN [score |-> 0, matched |-> <<>>]
    ELSE LET rest == CategoryScore(Tail(keywords), combined_text, context)
             keyword == Head(keywords)
         IN  IF Contains(keyword, combined_text)
             THEN [score |-> rest.score
                               + (IF Contains(keyword, context) THEN 2 ELSE 1),
                   matched |-> <<keyword>> \o rest.matched]
             ELSE rest

\* the loop over the categories (lines 148-166): a later category replaces
\* the choice only with a strictly higher score
RECURSIVE BestCategory(_, _, _, _)
BestCategory(mapping, combined_text, context, best) ==
    IF mapping = <<>> THEN best
    ELSE LET c == CategoryScore(Head(mapping).keywords, combined_text, context)
         IN  BestCategory(Tail(mapping), combined_text, context,
                 IF c.score > best.score
                 THEN [type |-> Head(mapping).category, score |-> c.score,
                       reasoning |-> "matched keywords: " \o JoinComma(c.matched)]
                 ELSE best)

ClassifyFallback(text, amount, amounts) ==
    LET text_lower == ToLower(text)
        context == ToLower(extract_context_window(text, amount, 30))
        combined_text == text_lower \o " " \o context
        kw == BestCategory(keyword_mapping, combined_text, context,
                  [type |-> "other", score |-> 0,
                   reasoning |-> "rule-based classification"])
        rule == _apply_amount_pattern_rules(amount, amounts)
    IN  IF kw.type = "other"
        THEN [type |-> rule.type, value |-> amount,
              context |-> rule.reasoning, name |-> None]
        ELSE [type |-> kw.type, value |-> amount,
              context |-> kw.reasoning, name |-> None]

\* a slip: one entry per key of the contexts dictionary, not per amount
fallback_rule_based_classification_per_key(text, amounts) ==
    [i \in 1..Len(remove_duplicates(amounts)) |->
        ClassifyFallback(text, remove_duplicates(amounts)[i], amounts)]

fallback_rule_based_classification(text, amounts) ==
    [i \in 1..Len(amounts) |-> ClassifyFallback(text, amounts[i], amounts)]

(***************************************************************************)
(* The remote response.  kind says how far the call and the parse get:     *)
(*   "raises"          generate_content or response.text raises            *)
(*   "no_open_brace"   find('{') = -1: ValueError (line 121)               *)
(*   "no_close_brace"  rfind('}') + 1 = 0: json.loads('') raises           *)
(*   "invalid_json"    json.loads raises                                   *)
(*   "object"          a JSON object; amounts_kind is "absent" (the        *)
(*                     default []), "not_iterable" (null or a number: the  *)
(*                     for loop raises TypeError) or "list"                *)
(* An item of the list has value = BadValue when float(item['value'])      *)
(* raises.                                                                 *)
(***************************************************************************)
BadValue == -1

Response(kind, amounts_kind, items) ==
    [kind |-> kind, amounts_kind |-> amounts_kind, items |-> items]

Item(value, type, source) ==
    [is_dict |-> TRUE, has_value |-> TRUE, value |-> value,
     has_type |-> TRUE, type |-> type,
     has_source |-> source # None, source |-> source,
     has_context |-> FALSE, context |-> None,
     has_name |-> FALSE, name |-> None]

\* the condition of line 108
Accepted(item) == item.is_dict /\ item.has_value /\ item.has_type

\* the ClassifiedAmount of lines 109-114
ToClassifiedAmount(item) ==
    [type |-> item.type,
     value |-> item.value,
     context |-> IF item.has_source THEN item.source
                 ELSE IF item.has_context THEN item.context
                 ELSE "Gemini classification",
     name |-> IF item.has_name THEN item.name ELSE None]

\* a slip: an entry whose value does not convert is skipped
RECURSIVE ConvertItems_skipping(_)
ConvertItems_skipping(items) ==
    IF items = <<>> THEN [raised |-> FALSE, classified_amounts |-> <<>>]
    ELSE LET rest == ConvertItems_skipping(Tail(items))
         IN  IF Accepted(Head(items)) /\ Head(items).value # BadValue
             THEN [raised |-> FALSE,
                   classified_amounts |->
                       <<ToClassifiedAmount(Head(items))>> \o rest.classified_amounts]
             ELSE rest

\* the loop of lines 106-114: the first entry that does not convert raises
\* and nothing is returned
RECURSIVE ConvertItemsFrom(_)
ConvertItemsFrom(items) ==
    IF items = <<>> THEN [raised |-> FALSE, classified_amounts |-> <<>>]
    ELSE LET rest == ConvertItemsFrom(Tail(items))
         IN  IF ~Accepted(Head(items)) THEN rest
             ELSE IF Head(items).value = BadValue \/ rest.raised
             THEN [raised |-> TRUE, classified_amounts |-> <<>>]
             ELSE [raised |-> FALSE,
                   classified_amounts |->
                       <<ToClassifiedAmount(Head(items))>> \o rest.classified_amounts]

ConvertItems(items) == ConvertItemsFrom(items)

\* a variant in which an answer without an accepted entry counts as a failure
classify_with_gemini_empty_fails(response) ==
    IF response.kind # "object" \/ response.amounts_kind = "not_iterable"
    THEN [raised |-> TRUE, classified_amounts |-> <<>>]
    ELSE IF response.amounts_kind = "absent"
    THEN [raised |-> TRUE, classified_amounts |-> <<>>]
    ELSE IF ConvertItems(response.items).classified_amounts = <<>>
    THEN [raised |-> TRUE, classified_amounts |-> <<>>]
    ELSE ConvertItems(response.items)

classify_with_gemini(response) ==
    IF response.kind # "object" \/ response.amounts_kind = "not_iterable"
    THEN [raised |-> TRUE, classified_amounts |-> <<>>]
    ELSE IF response.amounts_kind = "absent" THEN ConvertItems(<<>>)
    ELSE ConvertItems(response.items)

\* a slip: the remote failure is re-raised instead of absorbed
process_amounts_no_fallback(text, amounts, response) ==
    LET remote == classify_with_gemini(response)
    IN  [raised |-> remote.raised,
         amounts |-> remote.classified_amounts,
         confidence |->
             calculate_classification_confidence(remote.classified_amounts, TRUE),
         used_gemini |-> ~remote.raised,
         calls |-> <<"classify_with_gemini">>]

\* calls lists the classifiers invoked, in order.  ClassificationOutput
\* rejects a confidence outside [0, 1]; the method re-raises it as ValueError.
ClassifiedWith(classified_amounts, used_gemini) ==
    LET confidence ==
            calculate_classification_confidence(classified_amounts, used_gemini)
        calls == IF used_gemini THEN <<"classify_with_gemini">>
                 ELSE <<"classify_with_gemini", "fallback_rule_based_classification">>
    IN  IF confidence < 0 \/ confidence > 100
        THEN [raised |-> TRUE, amounts |-> <<>>, confidence |-> 0,
              used_gemini |-> used_gemini, calls |-> calls]
        ELSE [raised |-> FALSE, amounts |-> classified_amounts,
              confidence |-> confidence, used_gemini |-> used_gemini,
              calls |-> calls]

process_amounts(text, amounts, response) ==
    IF classify_with_gemini(response).raised
    THEN ClassifiedWith(fallback_rule_based_classification(text, amounts), FALSE)
    ELSE ClassifiedWith(classify_with_gemini(response).classified_amounts, TRUE)

(***************************************************************************)
(* Step 4: UtilityService -- provenance and final output                   *)
(***************************************************************************)
max_context_length == 100

meaningful_keywords ==
    <<"total", "bill", "paid", "due", "balance", "consultation",
      "medicine", "test", "discount", "tax", "amount", "fee">>

currency_indicators == <<"rs", "inr", "₹", "$", "rupees">>

_score_context(context) ==
    LET context_lower == ToLower(context)
        bare == RemoveChars(Strip(context, WhiteSpace), {".", ","})
    IN  2 * CountIn(meaningful_keywords, context_lower)
        + CountIn(currency_indicators, context_lower)
        + (IF Len(context) > 30 THEN 1 ELSE 0)
        - (IF IsDigitStr(bare) THEN 2 ELSE 0)

\* the first window with the highest score above the current best
RECURSIVE BestWindow(_, _, _)
BestWindow(windows, best_context, best_score) ==
    IF windows = <<>> THEN best_context
    ELSE LET score == _score_context(Head(windows))
         IN  IF score > best_score
             THEN BestWindow(Tail(windows), Head(windows), score)
             ELSE BestWindow(Tail(windows), best_context, best_score)

\* f"{amount:.1f}": the amount rounded to tenths
OneDecimal(amount, up) ==
    LET r == amount % 10
        tenths == (amount \div 10) + (IF r > 5 \/ (r = 5 /\ up) THEN 1 ELSE 0)
    IN  NatStr(tenths \div 10) \o "." \o DigitChar(tenths % 10)

\* a negative amount is rendered with its sign; int() drops the fraction
\* towards zero, so str(int(-0.5)) is "0"
Magnitude(amount) == IF amount < 0 THEN 0 - amount ELSE amount

Signed(amount, rendering) == IF amount < 0 THEN "-" \o rendering ELSE rendering

SignedInt(amount, rendering) ==
    IF Magnitude(amount) < 100 THEN rendering ELSE Signed(amount, rendering)

\* the renderings searched, without regard to case (lines 33-43)
amount_patterns(amount, up) ==
    LET m == Magnitude(amount)
        int_amount == SignedInt(amount, IntStr(m))
    IN  <<int_amount, Signed(amount, RenderFloat(m)), Signed(amount, TwoDecimals(m)),
          Signed(amount, OneDecimal(m, up)), SignedInt(amount, GroupedStr(m)),
          "Rs " \o int_amount, "INR " \o int_amount,
          "₹ " \o int_amount, "Rs." \o int_amount>>

RECURSIVE LowerAll(_)
LowerAll(words) ==
    IF words = <<>> THEN <<>> ELSE <<ToLower(Head(words))>> \o LowerAll(Tail(words))

\* best_context[:max_context_length] + "..."
Truncate(best_context) ==
    IF Len(best_context) > max_context_length
    THEN SubSeq(best_context, 1, max_context_length) \o "..."
    ELSE best_context

find_source_context(original_text, amount, context_size, up) ==
    LET windows == WindowsOf(original_text, ToLower(original_text),
                             LowerAll(amount_patterns(amount, up)), context_size)
    IN  Truncate(BestWindow(windows,
            "Amount: " \o Signed(amount, RenderFloat(Magnitude(amount))), 0))

\* a slip: the type is kept as classified
validate_type_kept(v) == v

\* AmountInfo.validate_type
validate_type(v) == IF v \notin amount_types THEN "other" ELSE v

\* FinalOutput.validate_currency
validate_currency(v) == IF v \notin {"INR", "USD", "EUR"} THEN "INR" ELSE v

\* a variant that reuses every context the classifier gave
SourceOf_any_context(original_text, classified_amount, up) ==
    IF /\ classified_amount.context # None
       /\ classified_amount.context # ""
    THEN classified_amount.context
    ELSE find_source_context(original_text, classified_amount.value, 50, up)

\* the choice of lines 193-202: a context with the prefix is the source
SourceOf(original_text, classified_amount, up) ==
    IF /\ classified_amount.context # None
       /\ classified_amount.context # ""
       /\ StartsWith(classified_amount.context, "text: '")
    THEN classified_amount.context
    ELSE find_source_context(original_text, classified_amount.value, 50, up)

ToAmountInfo(original_text, classified_amount, up) ==
    [type |-> validate_type(classified_amount.type),
     value |-> classified_amount.value,
     source |-> SourceOf(original_text, classified_amount, up),
     name |-> classified_amount.name]

\* the errors validate_final_output collects for the amounts from position i
\* on (lines 139-150); a value is always a number and a validated type is
\* never empty
RECURSIVE AmountErrors(_, _)
AmountErrors(amounts, i) ==
    IF i > Len(amounts) THEN <<>>
    ELSE (IF amounts[i].value < 0
          THEN <<"Amount " \o NatStr(i - 1) \o ": value cannot be negative">>
          ELSE <<>>)
         \o (IF amounts[i].type = ""
             THEN <<"Amount " \o NatStr(i - 1) \o ": type is required">>
             ELSE <<>>)
         \o (IF amounts[i].source = ""
             THEN <<"Amount " \o NatStr(i - 1) \o ": source is required">>
             ELSE <<>>)
         \o AmountErrors(amounts, i + 1)

\* UtilityService.validate_final_output (lines 108-161): the errors, and
\* whether the warning about duplicate values is logged
validate_final_output(output) ==
    LET errors ==
            (IF output.currency = "" THEN <<"Currency field is required">> ELSE <<>>)
            \o (IF output.status = "" THEN <<"Status field is required">> ELSE <<>>)
            \o (IF output.currency \notin {"INR", "USD", "EUR"}
                THEN <<"Currency must be one of the valid currencies">> ELSE <<>>)
            \o (IF output.status \notin {"ok", "no_amounts_found", "low_confidence",
                                         "normalization_failed", "error"}
                THEN <<"Status must be one of the valid statuses">> ELSE <<>>)
            \o AmountErrors(output.amounts, 1)
    IN  [is_valid |-> errors = <<>>,
         errors |-> errors,
         duplicates |-> \E i, j \in 1..Len(output.amounts) :
                           i < j /\ output.amounts[i].value = output.amounts[j].value]

\* a variant that leaves out the amounts the self-check complains about
generate_final_output_blocking(original_text, classified_amounts, currency, up) ==
    [currency |-> validate_currency(currency),
     amounts |-> SelectSeq([i \in 1..Len(classified_amounts) |->
                               ToAmountInfo(original_text, classified_amounts[i], up)],
                           LAMBDA a : a.value >= 0),
     status |-> "ok"]

\* UtilityService.generate_final_output (lines 173-236): the result is
\* returned whatever the self-check says
generate_final_output(original_text, classified_amounts, currency, up) ==
    [currency |-> validate_currency(currency),
     amounts |-> [i \in 1..Len(classified_amounts) |->
                     ToAmountInfo(original_text, classified_amounts[i], up)],
     status |-> "ok"]

\* UtilityService.create_error_response
create_error_response(status, reason) ==
    [status |-> IF status \in {"no_amounts_found", "low_confidence",
                               "normalization_failed", "error"}
                THEN status ELSE "error",
     reason |-> reason]

(***************************************************************************)
(* /extract-amounts: the handler, one action per step of the pipeline.     *)
(* Each action runs a stage and the guardrail checks that follow it.       *)
(***************************************************************************)
max_length == 10000

AllowedPunctuation ==
    {".", ",", ";", ":", "!", "?", "₹", "$", "€", "£", "-", "+", "=", "%",
     "(", ")", "/", "@", "#", "&"}

\* re.sub(r'\s+', ' ', s)
\* positions lo..hi of s: a run of white space leaves one blank, written
\* where the run starts
RECURSIVE CollapseRange(_, _, _)
CollapseRange(s, lo, hi) ==
    IF lo > hi THEN ""
    ELSE IF lo = hi
    THEN (IF ~IsSpaceCh(Ch(s, lo)) THEN Ch(s, lo)
          ELSE IF lo > 1 /\ IsSpaceCh(Ch(s, lo - 1)) THEN "" ELSE " ")
    ELSE CollapseRange(s, lo, (lo + hi) \div 2)
             \o CollapseRange(s, ((lo + hi) \div 2) + 1, hi)

CollapseSpaces(s) == CollapseRange(s, 1, Len(s))

\* re.sub(r'[^\w\s.,;:!?₹$€£\-+=%()/@#&]', '', s)
RECURSIVE KeepAllowed(_)
KeepAllowed(s) ==
    IF s = "" THEN ""
    ELSE IF Len(s) = 1
    THEN (IF IsWordCh(s) \/ IsSpaceCh(s) \/ s \in AllowedPunctuation
          THEN s ELSE "")
    ELSE KeepAllowed(Left(s)) \o KeepAllowed(Right(s))

sanitize_text_input(text) ==
    LET cleaned == KeepAllowed(CollapseSpaces(Strip(text, WhiteSpace)))
    IN  IF text = "" THEN ""
        ELSE IF Len(cleaned) > max_length
        THEN SubSeq(cleaned, 1, max_length) \o "..."
        ELSE cleaned

ExtractionRaised == [NoExtraction EXCEPT !.raised = TRUE]

\* a slip: the text is given no OCR confidence
process_input_text_unrated(text, up) ==
    IF text = "" THEN ExtractionRaised ELSE ExtractFrom(text, 0, up)

\* process_input(text=text): an empty text raises ValueError (line 214)
process_input_text(text, up) ==
    IF text = "" THEN ExtractionRaised ELSE ExtractFrom(text, 100, up)

\* process_input(image_data=...): the OCR engine raises, or reads a text
\* with a confidence
process_input_image(engine, up) ==
    IF engine.raises THEN ExtractionRaised
    ELSE ExtractFrom(engine.text, engine.confidence, up)

\* What the handler hands back: kind is "error" for an ErrorResponse value,
\* "final" for a FinalOutput value and "raised" for an exception that leaves
\* the handler (status then names the exception).
ErrorResponse(status, reason) ==
    [kind |-> "error",
     status |-> create_error_response(status, reason).status,
     reason |-> create_error_response(status, reason).reason,
     currency |-> "", amounts |-> <<>>]

FinalOutput(output) ==
    [kind |-> "final", status |-> output.status, reason |-> "",
     currency |-> output.currency, amounts |-> output.amounts]

Propagated(exception) ==
    [kind |-> "raised", status |-> exception, reason |-> "",
     currency |-> "", amounts |-> <<>>]

\* a slip: every exception is re-raised to the caller
handle_exception_reraise(exception) == Propagated(exception)

\* the except clauses of lines 231-241
handle_exception(exception) ==
    IF exception = "HTTPException" THEN Propagated(exception)
    ELSE ErrorResponse("error", "Internal processing error: " \o exception)

Passed == [status |-> "pass", reason |-> ""]
NoAmountsFound ==
    [status |-> "no_amounts_found",
     reason |-> "No numeric values detected in the document"]
LowConfidence ==
    [status |-> "low_confidence",
     reason |-> "Document too noisy or unclear for reliable extraction"]
NormalizationFailed ==
    [status |-> "normalization_failed",
     reason |-> "Could not normalize any detected amounts"]

\* a slip: the confidence is checked before the token list
extraction_guardrail_swapped(ocr) ==
    IF ocr.confidence < 30 THEN LowConfidence
    ELSE IF ocr.raw_tokens = <<>> THEN NoAmountsFound
    ELSE Passed

\* guardrail checks 1 and 2 (lines 168-180)
extraction_guardrail(ocr) ==
    IF ocr.raw_tokens = <<>> THEN NoAmountsFound
    ELSE IF ocr.confidence < 30 THEN LowConfidence
    ELSE Passed

\* a slip: the check is missing
normalization_guardrail_missing(normalization) == Passed

\* guardrail check 3 (lines 189-194)
normalization_guardrail(normalization) ==
    IF normalization.normalized_amounts = <<>> THEN NormalizationFailed
    ELSE Passed

RECURSIVE Repeat(_, _)
Repeat(c, n) ==
    IF n = 0 THEN ""
    ELSE IF n = 1 THEN c
    ELSE Repeat(c, n \div 2) \o Repeat(c, n - (n \div 2))

ScenarioText == "Total: INR 1200 | Paid: 1000 | Due: 200"
LongText == Repeat("z", 55) \o " Total 5000 " \o Repeat("y", 55)

\* the text of a text request; "" stands for no text at all
TextInputs ==
    {"", "   ", ScenarioText, "No digits here", "Rs 250000", LongText,
     "Bill USD 450.50 paid 2025", "Fee 25 Rs 600000 Total 5,000"}

\* what the OCR engine may read from an uploaded image
OcrTexts == {"", ScenarioText, "Rs 250000"}

EngineOutcomes ==
    {[raises |-> TRUE, text |-> "", confidence |-> 0]}
        \cup {[raises |-> FALSE, text |-> t, confidence |-> c] :
                 t \in OcrTexts, c \in OcrConfidences}

MaxItems == 2

LongSource == "text: '" \o Repeat("q", 100) \o "'"

ItemUniverse ==
    {Item(120000, "total_bill", "text: 'Total: INR 1200'"),
     Item(77700, "bogus", None),
     Item(BadValue, "paid", None),
     [Item(20000, "due", None) EXCEPT !.has_type = FALSE],
     Item(100000, "paid", LongSource),
     Item(500000, "tax", None)}

Responses ==
    {Response(k, "absent", <<>>) :
        k \in {"raises", "no_open_brace", "no_close_brace", "invalid_json", "object"}}
        \cup {Response("object", "not_iterable", <<>>)}
        \cup {Response("object", "list", items) :
                 items \in SeqsUpTo(ItemUniverse, MaxItems)}

Return(r) == pc' = "done" /\ returned' = r

\* the stage raised: the handler's except clause decides what is returned
Raise(stage, exception) ==
    raised' = stage /\ Return(handle_exception(exception))

AfterExtraction(t, ocr) ==
    /\ txt' = t
    /\ ocr_result' = ocr
    /\ trace' = <<"extraction">>
    /\ IF ocr.raised THEN Raise("extraction", "ValueError")
       ELSE /\ raised' = raised
            /\ IF extraction_guardrail(ocr) # Passed
               THEN Return(ErrorResponse(extraction_guardrail(ocr).status,
                                         extraction_guardrail(ocr).reason))
               ELSE pc' = "extracted" /\ returned' = returned
    /\ UNCHANGED <<normalization_result, gemini_response, classification_result>>

\* a text request (also /extract-amounts-json): lines 139-143, 159-180
extract_amounts_text ==
    /\ pc = "start"
    /\ file' = FALSE
    /\ \E raw \in TextInputs, up \in BOOLEAN :
          IF raw = ""
          THEN /\ Return(ErrorResponse("error",
                   "No input provided. Please provide either a file or text."))
               /\ UNCHANGED <<txt, ocr_result, normalization_result, gemini_response,
                              classification_result, trace, raised>>
          ELSE AfterExtraction(sanitize_text_input(raw),
                               process_input_text(sanitize_text_input(raw), up))
    /\ UNCHANGED <<normVars, confVars, stepVars>>

\* a file request: lines 148-157, 166-180; validate_uploaded_file raises
\* HTTPException for a file it rejects
extract_amounts_file ==
    /\ pc = "start"
    /\ file' = TRUE
    /\ \/ /\ Raise("validate_uploaded_file", "HTTPException")
          /\ UNCHANGED <<txt, ocr_result, normalization_result, gemini_response,
                         classification_result, trace>>
       \/ \E engine \in EngineOutcomes, up \in BOOLEAN :
             AfterExtraction(engine.text, process_input_image(engine, up))
    /\ UNCHANGED <<normVars, confVars, stepVars>>

AfterNormalization(n) ==
    /\ normalization_result' = n
    /\ trace' = Append(trace, "normalization")
    /\ IF n.raised THEN Raise("normalization", "ValueError")
       ELSE /\ raised' = raised
            /\ IF normalization_guardrail(n) # Passed
               THEN Return(ErrorResponse(normalization_guardrail(n).status,
                                         normalization_guardrail(n).reason))
               ELSE pc' = "normalized" /\ returned' = returned

\* step 2 and guardrail check 3: lines 182-194
extract_amounts_normalize ==
    /\ pc = "extracted"
    /\ \E up \in BOOLEAN :
          AfterNormalization(process_tokens(ocr_result.raw_tokens, up))
    /\ UNCHANGED <<file, txt, ocr_result, gemini_response, classification_result>>
    /\ UNCHANGED <<normVars, confVars, stepVars>>

AfterClassification(r, c) ==
    /\ gemini_response' = r
    /\ classification_result' = c
    /\ trace' = trace \o c.calls
    /\ IF c.raised THEN Raise("classification", "ValueError")
       ELSE /\ raised' = raised
            /\ pc' = "classified"
            /\ returned' = returned

\* step 3: lines 196-211; for a file the text is read from the image again
\* (line 202), which the OCR engine may fail to do
extract_amounts_classify ==
    /\ pc = "normalized"
    /\ \/ /\ file
          /\ Raise("extract_text_from_image", "ValueError")
          /\ UNCHANGED <<gemini_response, classification_result, trace>>
       \/ \E r \in Responses :
             AfterClassification(
                 r, process_amounts(txt, normalization_result.normalized_amounts, r))
    /\ UNCHANGED <<file, txt, ocr_result, normalization_result>>
    /\ UNCHANGED <<normVars, confVars, stepVars>>

\* step 4: lines 213-229
extract_amounts_finalize ==
    /\ pc = "classified"
    /\ \E up \in BOOLEAN :
          Return(FinalOutput(generate_final_output(
              txt, classification_result.amounts, ocr_result.currency_hint, up)))
    /\ trace' = Append(trace, "generate_final_output")
    /\ UNCHANGED <<file, txt, ocr_result, normalization_result, gemini_response,
                   classification_result, raised>>
    /\ UNCHANGED <<normVars, confVars, stepVars>>

Init == NormIdle /\ ConfIdle /\ PipeIdle /\ StepIdle

Next ==
    \/ extract_amounts_text
    \/ extract_amounts_file
    \/ extract_amounts_normalize
    \/ extract_amounts_classify
    \/ extract_amounts_finalize

Spec == Init /\ [][Next]_vars

(***************************************************************************)
(* Properties of the pipeline                                              *)
(***************************************************************************)
\* extraction returned a result / normalization returned a result / the
\* classifier was called
Extracted == trace # <<>> /\ ~ocr_result.raised
Normalized == "normalization" \in SeqToSet(trace) /\ ~normalization_result.raised
ClassifierRan == gemini_response # NoResponse

StageOf(call) ==
    CASE call = "extraction" -> 1
      [] call = "normalization" -> 2
      [] call \in {"classify_with_gemini", "fallback_rule_based_classification"} -> 3
      [] call = "generate_final_output" -> 4

Stages == [i \in 1..Len(trace) |-> StageOf(trace[i])]

GuardrailTrips ==
    \/ Extracted /\ (ocr_result.raw_tokens = <<>> \/ ocr_result.confidence < 30)
    \/ Normalized /\ normalization_result.normalized_amounts = <<>>

\* C1: the stages are entered in the order extraction, normalization,
\* classification (the remote call, then possibly the fallback), assembly;
\* and once a guardrail trips (no tokens, extraction confidence < 0.3, no
\* normalized amount) the run has ended with an error result and neither a
\* classifier nor the assembler was invoked.
C1_GuardrailsShortCircuit ==
    /\ Stages \in {<<>>, <<1>>, <<1, 2>>, <<1, 2, 3>>, <<1, 2, 3, 3>>,
                   <<1, 2, 3, 4>>, <<1, 2, 3, 3, 4>>}
    /\ GuardrailTrips =>
          /\ pc = "done"
          /\ returned.kind = "error"
          /\ \A i \in 1..Len(Stages) : Stages[i] < 3

C1_Witness ==
    /\ pc = "done"
    /\ Extracted /\ ocr_result.raw_tokens # <<>> /\ ocr_result.confidence >= 30
    /\ Normalized /\ normalization_result.normalized_amounts = <<>>
    /\ trace = <<"extraction", "normalization">>

\* C2: the returned status is no_amounts_found exactly when extraction
\* returned no token (its confidence is then 0); low_confidence exactly when
\* it returned tokens with a confidence < 0.3; normalization_failed exactly
\* when it returned tokens with a confidence >= 0.3 and the normalizer
\* returned no amount; each of the three is an error value that is returned,
\* not an exception.
C2_GuardrailStatus ==
    /\ (Extracted /\ ocr_result.raw_tokens = <<>>) => ocr_result.confidence = 0
    /\ returned.status = "no_amounts_found"
          <=> (Extracted /\ ocr_result.raw_tokens = <<>>)
    /\ returned.status = "low_confidence"
          <=> (Extracted /\ ocr_result.raw_tokens # <<>> /\ ocr_result.confidence < 30)
    /\ returned.status = "normalization_failed"
          <=> (/\ Extracted /\ ocr_result.raw_tokens # <<>>
               /\ ocr_result.confidence >= 30
               /\ Normalized /\ normalization_result.normalized_amounts = <<>>)
    /\ returned.status \in {"no_amounts_found", "low_confidence", "normalization_failed"}
          => (returned.kind = "error" /\ raised = "none")

C2_Witness ==
    /\ pc = "done"
    /\ Extracted /\ ocr_result.raw_tokens = <<>> /\ ocr_result.confidence < 30
    /\ returned.kind = "error" /\ returned.status = "no_amounts_found"

\* the remote step fails: the call raises, the text holds no JSON object, the
\* JSON does not parse, or an entry cannot be converted
RemoteFails(r) ==
    \/ r.kind \in {"raises", "no_open_brace", "no_close_brace", "invalid_json"}
    \/ r.kind = "object" /\ r.amounts_kind = "not_iterable"
    \/ /\ r.kind = "object" /\ r.amounts_kind = "list"
       /\ \E i \in 1..Len(r.items) :
             Accepted(r.items[i]) /\ r.items[i].value = BadValue

FallbackEntries ==
    fallback_rule_based_classification(txt, normalization_result.normalized_amounts)

\* C3: when the remote classification fails, process_amounts does not raise
\* and returns the fallback classification of the normalized amounts, and
\* the run returns a final output with status ok.
C3_RemoteFailureAbsorbed ==
    (ClassifierRan /\ RemoteFails(gemini_response)) =>
        /\ ~classification_result.raised
        /\ raised = "none"
        /\ classification_result.amounts = FallbackEntries
        /\ pc = "done" => (returned.kind = "final" /\ returned.status = "ok")

C3_Witness ==
    /\ pc = "done"
    /\ gemini_response.kind = "invalid_json"
    /\ returned.kind = "final" /\ returned.status = "ok"
    /\ Len(returned.amounts) = 3

RemoteEntries ==
    LET accepted == SelectSeq(gemini_response.items, Accepted)
    IN  [i \in 1..Len(accepted) |-> ToClassifiedAmount(accepted[i])]

\* C4: the remote path is attempted first and the fallback is invoked exactly
\* when it failed; the result is the accepted remote entries when the remote
\* path succeeded and the fallback entries when it failed, and then holds no
\* entry built from the failed response.
C4_RemoteFirstNoMixture ==
    ClassifierRan =>
        /\ classification_result.calls \in
              {<<"classify_with_gemini">>,
               <<"classify_with_gemini", "fallback_rule_based_classification">>}
        /\ Len(classification_result.calls) = 2 <=> RemoteFails(gemini_response)
        /\ IF RemoteFails(gemini_response)
           THEN /\ classification_result.amounts = FallbackEntries
                /\ \A i \in 1..Len(RemoteEntries) :
                      RemoteEntries[i] \notin SeqToSet(classification_result.amounts)
           ELSE classification_result.amounts = RemoteEntries

C4_Witness ==
    /\ ClassifierRan
    /\ Len(gemini_response.items) = 2
    /\ Accepted(gemini_response.items[1]) /\ gemini_response.items[1].value # BadValue
    /\ Accepted(gemini_response.items[2]) /\ gemini_response.items[2].value = BadValue
    /\ Len(classification_result.calls) = 2
    /\ classification_result.amounts # <<>>

\* C5: a run that passes the request validation returns nothing before it
\* ends and ends with exactly one result: a final output, or an error value
\* whose status is no_amounts_found, low_confidence, normalization_failed or
\* error; an exception raised in a stage gives an error value with status
\* error and a reason, and does not leave the handler.
C5_ResultOrError ==
    /\ pc # "done" => (returned = NoResult /\ raised = "none")
    /\ (pc = "done" /\ raised # "validate_uploaded_file") =>
          /\ returned.kind \in {"final", "error"}
          /\ returned.kind = "final" => returned.status = "ok"
          /\ returned.kind = "error" =>
                returned.status \in {"no_amounts_found", "low_confidence",
                                     "normalization_failed", "error"}
          /\ raised # "none" =>
                (/\ returned.kind = "error" /\ returned.status = "error"
                 /\ returned.reason # "")

C5_Witness ==
    /\ pc = "done"
    /\ raised = "extraction"
    /\ returned.kind = "error" /\ returned.status = "error"

ValidTypes ==
    {"total_bill", "paid", "due", "discount", "tax", "consultation", "medicine",
     "test", "other"}

\* C7: in a final output every amount's type is one of the nine categories,
\* and an amount classified with a type outside them has the type other.
C7_TypesEnumerated ==
    returned.kind = "final" =>
        /\ Len(returned.amounts) = Len(classification_result.amounts)
        /\ \A i \in 1..Len(returned.amounts) :
              /\ returned.amounts[i].type \in ValidTypes
              /\ classification_result.amounts[i].type \notin ValidTypes
                    => returned.amounts[i].type = "other"

C7_Witness ==
    /\ returned.kind = "final"
    /\ \E i \in 1..Len(returned.amounts) :
          /\ classification_result.amounts[i].type = "bogus"
          /\ returned.amounts[i].type = "other"

\* C8: every source of a final output is non-empty and at most
\* max_context_length characters long, whether it was reused from the
\* classifier's context or found by searching the text.
C8_SourceBounded ==
    returned.kind = "final" =>
        \A i \in 1..Len(returned.amounts) :
            /\ returned.amounts[i].source # ""
            /\ Len(returned.amounts[i].source) <= max_context_length

\* the text of scenario 1, as the OCR engine reads it or as a text request
\* holds it after sanitize_text_input (which removes the bars)
ScenarioRun == txt \in {ScenarioText, sanitize_text_input(ScenarioText)}

\* C11: for the text "Total: INR 1200 | Paid: 1000 | Due: 200" extraction
\* returns the tokens "1200", "1000", "200" in this order with the currency
\* hint INR, and normalization returns 1200.0, 1000.0, 200.0 in this order.
C11_ScenarioTokens ==
    (ScenarioRun /\ Extracted) =>
        /\ ocr_result.raw_tokens = <<"1200", "1000", "200">>
        /\ ocr_result.currency_hint = "INR"
        /\ Normalized =>
              normalization_result.normalized_amounts = <<120000, 100000, 20000>>

\* C12: for the text "Total: INR 1200 | Paid: 1000 | Due: 200" with the
\* remote classifier failing, the fallback classifier gives the amount 1200
\* the type total_bill, 1000 the type paid and 200 the type due, each by a
\* keyword match.
C12_ScenarioFallbackTypes ==
    (ScenarioRun /\ ClassifierRan /\ RemoteFails(gemini_response)) =>
        /\ Len(classification_result.amounts) = 3
        /\ \A i \in 1..Len(classification_result.amounts) :
              LET entry == classification_result.amounts[i]
              IN  /\ StartsWith(entry.context, "matched keywords: ")
                  /\ entry.value = 120000 => entry.type = "total_bill"
                  /\ entry.value = 100000 => entry.type = "paid"
                  /\ entry.value = 20000 => entry.type = "due"

\* a text request whose text was not empty: the handler went past the input
\* validation (line 139) and called the extraction stage
TextRequestRan == ~file /\ trace # <<>>

\* sanitize_text_input keeps every digit of a text it does not truncate, so
\* the sanitized text holds a digit exactly when the request's text does
HasDigit(s) == \E i \in 1..Len(s) : IsDigit(Ch(s, i))

\* C13: for every non-empty input text without a digit, extraction returns
\* no token and the run returns an error result with the status
\* no_amounts_found (not low_confidence and not error).
C13_NoDigitsNoAmountsFound ==
    (TextRequestRan /\ ~HasDigit(txt)) =>
        /\ ocr_result.raw_tokens = <<>>
        /\ pc = "done"
        /\ returned.kind = "error"
        /\ returned.status = "no_amounts_found"

(***************************************************************************)
(* Further properties of the normalizer (SpecNorm)                         *)
(***************************************************************************)
\* C14: a token that the character substitution turns into zeros ("O0O"
\* into "000") passes the strict numeric parse with the value 0, fails the
\* general range check and is not among the amounts; every amount of a
\* result lies between 0.01 and 100000.
C14_ZeroRejectedAmountsInRange ==
    (npc # "idle" /\ ~nres.raised) =>
        /\ \A i \in 1..Len(nres.normalized_amounts) :
              /\ 1 <= nres.normalized_amounts[i]
              /\ nres.normalized_amounts[i] <= 10000000
        /\ \A i \in 1..Len(ntokens) :
              apply_ocr_corrections(ntokens[i]) = "000" =>
                  /\ MatchesNumber(clean_token(ntokens[i]))
                  /\ \A up \in BOOLEAN :
                        convert_to_number(clean_token(ntokens[i]), up) = 0
                  /\ 0 \notin SeqToSet(nres.normalized_amounts)

\* "O0O" was normalized together with a valid token and left out
C14_Witness ==
    /\ npc = "normalized"
    /\ ntokens = <<"O0O", "5000">>
    /\ nres.normalized_amounts = <<500000>>

\* digit groups of 1 to 3 and then 3 digits separated by commas, followed by
\* a decimal tail: "1,200.00"
GroupedWithDecimals(token) ==
    /\ CountCh(token, ".") = 1
    /\ LET whole == Split(token, ".")[1]
           groups == Split(whole, ",")
       IN  /\ IsDigitStr(Split(token, ".")[2])
           /\ Len(groups) >= 2
           /\ IsDigitStr(groups[1]) /\ Len(groups[1]) <= 3
           /\ \A k \in 2..Len(groups) :
                 IsDigitStr(groups[k]) /\ Len(groups[k]) = 3

\* C15: a token with thousands grouping and a decimal tail is cleaned to the
\* same digits without the commas and normalized to its value: "1,200.00"
\* is cleaned to "1200.00" and, alone, gives the single amount 1200.0.
C15_GroupedTokenNormalized ==
    (npc # "idle" /\ ~nres.raised) =>
        /\ \A i \in 1..Len(ntokens) :
              GroupedWithDecimals(ntokens[i]) =>
                  /\ clean_token(ntokens[i]) = RemoveChars(ntokens[i], {","})
                  /\ ntokens[i] = "1,200.00" =>
                        /\ clean_token(ntokens[i]) = "1200.00"
                        /\ 120000 \in SeqToSet(nres.normalized_amounts)
                  /\ ntokens[i] = "12,345.5" =>
                        1234550 \in SeqToSet(nres.normalized_amounts)
        /\ ntokens = <<"1,200.00">> => nres.normalized_amounts = <<120000>>

C15_Witness ==
    /\ npc = "normalized"
    /\ ntokens = <<"1,200.00">>
    /\ nres.normalized_amounts = <<120000>>

(***************************************************************************)
(* Further properties of the pipeline (Spec)                               *)
(***************************************************************************)
\* one of the words occurs in the text as written
Indicates(words, text) == \E w \in words : Contains(w, text)

\* C16: the currency hint is the first of INR, USD, EUR with a keyword or
\* symbol in the text (INR: Rs, INR, the rupee sign, rupee, paisa; USD: $,
\* USD, dollar; EUR: the euro sign, EUR, euro), and INR when there is none;
\* a text with the code USD and no INR indicator gives USD, one with only
\* the code EUR gives EUR.
C16_CurrencyDetected ==
    Extracted =>
        ocr_result.currency_hint =
            IF Indicates({"Rs", "INR", "₹", "rupee", "paisa"}, txt) THEN "INR"
            ELSE IF Indicates({"$", "USD", "dollar"}, txt) THEN "USD"
            ELSE IF Indicates({"€", "EUR", "euro"}, txt) THEN "EUR"
            ELSE "INR"

\* C17: in every result the classifier returns, on the remote path and on
\* the fallback path, the type of every classified amount is one of the nine
\* categories.
C17_ClassifiedTypesEnumerated ==
    (ClassifierRan /\ ~classification_result.raised) =>
        \A i \in 1..Len(classification_result.amounts) :
            classification_result.amounts[i].type \in ValidTypes

\* C18: every amount value of a returned final output is one of the amounts
\* the normalizer produced in that run, and so lies between 0.01 and 100000,
\* on the remote path as on the fallback path.
C18_FinalValuesNormalized ==
    returned.kind = "final" =>
        \A i \in 1..Len(returned.amounts) :
            /\ returned.amounts[i].value \in
                  SeqToSet(normalization_result.normalized_amounts)
            /\ 1 <= returned.amounts[i].value
            /\ returned.amounts[i].value <= 10000000

\* an entry that provides a numeric value and a type
WellFormed(item) ==
    item.is_dict /\ item.has_value /\ item.has_type /\ item.value # BadValue

WellFormedEntries ==
    LET kept == SelectSeq(gemini_response.items, WellFormed)
    IN  [i \in 1..Len(kept) |-> ToClassifiedAmount(kept[i])]

\* C19: when the remote response is a JSON object with a list of amounts, the
\* entries without a value, without a type or with a value that is not
\* numeric are discarded one by one, and the result is the remote
\* classification made of the remaining entries.
C19_MalformedEntriesDiscarded ==
    (/\ ClassifierRan
     /\ gemini_response.kind = "object"
     /\ gemini_response.amounts_kind = "list") =>
        /\ classification_result.used_gemini
        /\ classification_result.calls = <<"classify_with_gemini">>
        /\ classification_result.amounts = WellFormedEntries

\* the token, without its commas, is a number from 40 to 500000
InBillRange(token) ==
    LET s == RemoveChars(token, {","})
        whole == NatOf(Split(s, ".")[1])
        fraction == IF Contains(".", s) THEN Split(s, ".")[2] ELSE ""
    IN  /\ HasDigit(s)
        /\ CountCh(s, ".") <= 1
        /\ 40 <= whole
        /\ \/ whole < 500000
           \/ whole = 500000 /\ fraction \in {"", "0", "00"}

\* tokens are the distinct candidates in range, each at the place of its
\* first occurrence among the candidates
KeepsFirstOccurrences(tokens, candidates) ==
    /\ SeqToSet(tokens) =
          {c \in SeqToSet(candidates) : c # "" /\ InBillRange(c)}
    /\ \A i, j \in 1..Len(tokens) :
          i < j => FirstIndex(candidates, tokens[i]) < FirstIndex(candidates, tokens[j])

CleanedMatches(matches) == [k \in 1..Len(matches) |-> _clean_token(matches[k])]

\* C20: the tokens extraction returns hold no two equal strings, keep the
\* first occurrence in pass order (grouped or decimal amounts, bare 4-5 digit
\* amounts, currency-prefixed amounts, keyword-prefixed amounts), and each,
\* without its commas, is a number from 40 to 500000.  Stated of the run when
\* extraction has returned; no later stage assigns ocr_result.
C20_TokensUniqueOrderedInRange ==
    (Extracted /\ trace = <<"extraction">>) =>
        /\ \A i, j \in 1..Len(ocr_result.raw_tokens) :
              i # j => ocr_result.raw_tokens[i] # ocr_result.raw_tokens[j]
        /\ \A i \in 1..Len(ocr_result.raw_tokens) :
              InBillRange(ocr_result.raw_tokens[i])
        /\ KeepsFirstOccurrences(
              ocr_result.raw_tokens,
              CleanedMatches(PatternTokens(<<1>>, txt) \o PatternTokens(<<3>>, txt)
                             \o PatternTokens(<<4>>, txt) \o PatternTokens(<<5>>, txt)))

\* the keyword pass found "1000" and "200" again and they were not repeated
C20_Witness ==
    /\ Extracted /\ trace = <<"extraction">>
    /\ txt = sanitize_text_input(ScenarioText)
    /\ ocr_result.raw_tokens = <<"200", "1200", "1000">>
    /\ PatternTokens(<<5>>, txt) = <<"1000", "200">>

(***************************************************************************)
(* Properties of the normalizer's grouping (SpecNorm)                      *)
(***************************************************************************)
\* the groups between the commas have 1-3 digits, then exactly 2 digits each,
\* and at the end 2-3 digits with an optional decimal tail
GroupingMatches(token) ==
    LET groups == Split(token, ",")
        n == Len(groups)
        last == Split(groups[n], ".")
    IN  /\ n >= 2
        /\ IsDigitStr(groups[1]) /\ Len(groups[1]) <= 3
        /\ \A k \in 2..(n - 1) : IsDigitStr(groups[k]) /\ Len(groups[k]) = 2
        /\ IsDigitStr(last[1]) /\ Len(last[1]) \in {2, 3}
        /\ Len(last) <= 2
        /\ Len(last) = 2 => IsDigitStr(last[2])

\* C21: the commas of a token are stripped only when its grouping matches the
\* pattern; a token whose grouping does not match ("1,2,3") keeps its commas,
\* fails the strict numeric parse and contributes no amount.
C21_BadGroupingRejected ==
    (npc # "idle" /\ ~nres.raised) =>
        /\ \A i \in 1..Len(ntokens) :
              (Contains(",", ntokens[i]) /\ ~GroupingMatches(ntokens[i])) =>
                  /\ Contains(",", clean_token(ntokens[i]))
                  /\ \A up \in BOOLEAN :
                        convert_to_number(clean_token(ntokens[i]), up) = NoNumber
        /\ ntokens = <<"1,2,3">> => nres.normalized_amounts = <<>>

(***************************************************************************)
(* /debug/step3-classification (main.py:323-332): one call of              *)
(* process_amounts with the text and the amounts of the request.           *)
(***************************************************************************)
MaxAmounts == 3

Filler == Repeat("z", 40)

\* texts without a keyword, with a keyword next to the amount and others far
\* from it, and with keywords that meet where the text and the window are
\* joined
ClassTexts ==
    {"1200 and 700 and 600 and 500 and 5000",
     "tax 700 due service",
     "Paid in cash earlier " \o Filler \o " Due 700",
     "Paid earlier " \o Filler \o " Due 700 then 1200",
     ScenarioText}

ClassAmounts == {500000, 120000, 70000, 60000, 50000}

ClassResponses ==
    {Response("raises", "absent", <<>>),
     Response("object", "list", <<Item(70000, "paid", None)>>)}

debug_step3_classification ==
    /\ spc = "idle"
    /\ \E text \in ClassTexts, amounts \in SeqsUpTo(ClassAmounts, MaxAmounts),
          r \in ClassResponses :
          /\ sin' = [text |-> text, amounts |-> amounts, currency |-> "",
                     response |-> r]
          /\ sout' = process_amounts(text, amounts, r)
    /\ spc' = "classified"
    /\ UNCHANGED <<normVars, confVars, pipeVars>>

ClassInit == NormIdle /\ ConfIdle /\ PipeIdle /\ StepIdle

ClassNext == debug_step3_classification

SpecClass == ClassInit /\ [][ClassNext]_vars

(***************************************************************************)
(* Properties of the fallback classifier (SpecClass)                       *)
(***************************************************************************)
FallbackUsed == spc = "classified" /\ ~sout.raised /\ ~sout.used_gemini

\* 2 for each keyword inside the window, 1 for each keyword that is only in
\* the text
RECURSIVE KeywordScore(_, _, _)
KeywordScore(keywords, whole_text, window) ==
    IF keywords = <<>> THEN 0
    ELSE (IF Contains(Head(keywords), window) THEN 2
          ELSE IF Contains(Head(keywords), whole_text) THEN 1
          ELSE 0) + KeywordScore(Tail(keywords), whole_text, window)

\* the first category of the table with the highest score, other when every
\* score is zero
HighestCategory(whole_text, window) ==
    LET score == [k \in 1..Len(keyword_mapping) |->
                     KeywordScore(keyword_mapping[k].keywords, whole_text, window)]
        best == SeqMax(score)
    IN  IF best = 0 THEN "other"
        ELSE keyword_mapping[FirstOf({k \in 1..Len(score) : score[k] = best})].category

LocalWindow(text, amount) == ToLower(extract_context_window(text, amount, 30))

\* C22: the score of a category is 2 for each of its keywords inside the
\* amount's window plus 1 for each that occurs only in the wider text; the
\* amount gets the category with the highest score, the first of the table on
\* a tie, and the keyword pass gives other exactly when no score is above 0.
C22_KeywordScoring ==
    FallbackUsed =>
        \A i \in 1..Len(sout.amounts) :
            LET category == HighestCategory(ToLower(sin.text),
                                            LocalWindow(sin.text, sin.amounts[i]))
            IN  /\ category # "other" => sout.amounts[i].type = category
                /\ category = "other" <=>
                      ~StartsWith(sout.amounts[i].context, "matched keywords: ")

\* the type the ordered pattern rules give, small being the outcome of the
\* small-value test of rule (3)
RuleType(amount, all_amounts, small) ==
    IF Len(all_amounts) > 1 /\ amount = SeqMax(all_amounts) THEN "total_bill"
    ELSE IF amount % 100 = 0 /\ amount >= 100000 THEN "total_bill"
    ELSE IF small THEN "consultation"
    ELSE IF Len(all_amounts) > 1 /\ amount = SecondLargest(all_amounts) THEN "paid"
    ELSE "other"

RuleReasons ==
    {"largest amount in document", "large round number", "small amount pattern",
     "second largest amount", "no clear pattern identified"}

NoKeywordFor(i) ==
    HighestCategory(ToLower(sin.text), LocalWindow(sin.text, sin.amounts[i])) = "other"

\* C23 as stated: without a keyword in the text or the window the type comes
\* from the pattern rules in order, rule (3) being "the amount is below 500";
\* with a keyword the pattern rules are not applied.
C23_PatternRulesBelow ==
    FallbackUsed =>
        \A i \in 1..Len(sout.amounts) :
            IF NoKeywordFor(i)
            THEN sout.amounts[i].type =
                     RuleType(sin.amounts[i], sin.amounts, sin.amounts[i] < 50000)
            ELSE sout.amounts[i].context \notin RuleReasons

\* C23 amended: the same, rule (3) being "the amount is at most 500".
C23_PatternRulesAtMost ==
    FallbackUsed =>
        \A i \in 1..Len(sout.amounts) :
            IF NoKeywordFor(i)
            THEN /\ sout.amounts[i].type =
                       RuleType(sin.amounts[i], sin.amounts, sin.amounts[i] <= 50000)
                 /\ sout.amounts[i].context \in RuleReasons
            ELSE sout.amounts[i].context \notin RuleReasons

\* 500 is the second largest of two amounts and is typed by rule (3)
C23_Witness ==
    /\ FallbackUsed
    /\ sin.amounts = <<120000, 50000>>
    /\ NoKeywordFor(1) /\ NoKeywordFor(2)
    /\ sout.amounts[1].type = "total_bill"
    /\ sout.amounts[2].type = "consultation"

\* C24: on the fallback path the result holds one entry per amount of the
\* request, in the same order and with the same value; the context of an
\* entry names the matched keywords or the pattern rule that fired, and its
\* name is absent.
C24_FallbackOneEntryPerAmount ==
    FallbackUsed =>
        /\ Len(sout.amounts) = Len(sin.amounts)
        /\ \A i \in 1..Len(sout.amounts) :
              /\ sout.amounts[i].value = sin.amounts[i]
              /\ \/ /\ StartsWith(sout.amounts[i].context, "matched keywords: ")
                    /\ Len(sout.amounts[i].context) > Len("matched keywords: ")
                 \/ sout.amounts[i].context \in RuleReasons
              /\ sout.amounts[i].name = None

\* the same amount twice in the request gives two entries
C24_Witness ==
    /\ FallbackUsed
    /\ sin.amounts = <<70000, 70000, 120000>>
    /\ sin.text = "1200 and 700 and 600 and 500 and 5000"
    /\ Len(sout.amounts) = 3
    /\ sout.amounts[3].context = "largest amount in document"

(***************************************************************************)
(* Further properties of the confidence functions (SpecConf)               *)
(***************************************************************************)
Occurs(type, types) == \E i \in 1..Len(types) : types[i] = type

Bonus(condition, hundredths) == IF condition THEN hundredths ELSE 0

\* min(1, base + 0.1 + 0.05 per pairing - 0.2), in hundredths
ExpectedConfidence(types, base) ==
    Min2(100,
         base
         + Bonus(\E i, j \in 1..Len(types) : types[i] # types[j], 10)
         + Bonus(Occurs("total_bill", types) /\ Occurs("paid", types), 5)
         + Bonus(Occurs("total_bill", types) /\ Occurs("due", types), 5)
         + Bonus(Occurs("consultation", types) /\ Occurs("medicine", types), 5)
         + Bonus(Occurs("total_bill", types) /\ Occurs("tax", types), 5)
         - Bonus(2 * Cardinality({i \in 1..Len(types) : types[i] = "other"})
                    > Len(types), 20))

\* C25: for a non-empty list the classification confidence is min(1, base +
\* 0.1 if more than one type occurs + 0.05 per pairing present - 0.2 if more
\* than half of the amounts are other), with base 0.8 on the remote path and
\* 0.6 on the fallback path; for the same list the fallback confidence is
\* strictly lower than the remote one.
C25_ClassificationConfidence ==
    (cpc = "classification" /\ cin.types # <<>>) =>
        /\ cout.den = 100
        /\ cout.num = ExpectedConfidence(cin.types, IF cin.used_gemini THEN 80 ELSE 60)
        /\ cin.used_gemini =>
              calculate_classification_confidence(
                  [i \in 1..Len(cin.types) |-> Classified(cin.types[i])], FALSE)
                  < cout.num
        /\ ~cin.used_gemini =>
              cout.num < calculate_classification_confidence(
                  [i \in 1..Len(cin.types) |-> Classified(cin.types[i])], TRUE)

\* exactly half of the amounts are other: no penalty, 0.6 + 0.1 + 0.05
C25_Witness ==
    /\ cpc = "classification"
    /\ cin.types = <<"total_bill", "paid", "other", "other">>
    /\ ~cin.used_gemini
    /\ cout.num = 75

\* ---------------------------------------------------------------------------
\* One call of the assembler (SpecAssemble)
\* ---------------------------------------------------------------------------

\* the longest list of classified amounts handed to the assembler
MaxClassified == 2

\* documents: the scenario, a value in a window without keywords, a value
\* occurring in two windows, a value in a window longer than the limit, and
\* a negative value
AssembleTexts ==
    {ScenarioText,
     "Bed charges 700 only",
     "x 700 " \o Filler \o Filler \o " total bill due 700",
     Filler \o Filler \o " total 700 paid " \o Filler \o Filler,
     "Refund -5.5 due"}

ClassifiedAmount(type, value, context, name) ==
    [type |-> type, value |-> value, context |-> context, name |-> name]

\* classified amounts as the two classifiers and a caller can give them
AssembleAmounts ==
    {ClassifiedAmount("paid", 70000, None, None),
     ClassifiedAmount("total_bill", 120000, "text: 'Total: INR 1200'", None),
     ClassifiedAmount("bogus", 70000, "matched keywords: total", "X-ray"),
     ClassifiedAmount("due", -550, None, None),
     ClassifiedAmount("other", 90000, "Text: 'x'", None)}

\* a currency the result accepts and one it does not
AssembleCurrencies == {"USD", "GBP"}

\* generate_final_output called once: the result, and what its self-check
\* logged
assemble ==
    /\ spc = "idle"
    /\ \E text \in AssembleTexts,
          classified_amounts \in SeqsUpTo(AssembleAmounts, MaxClassified),
          currency \in AssembleCurrencies, up \in BOOLEAN :
          \E result \in {generate_final_output(text, classified_amounts, currency, up)} :
              /\ sin' = [text |-> text, amounts |-> classified_amounts,
                         currency |-> currency, response |-> NoResponse]
              /\ sout' = [result |-> result,
                          validation |-> validate_final_output(result)]
    /\ spc' = "assembled"
    /\ UNCHANGED <<normVars, confVars, pipeVars>>

AssembleInit == NormIdle /\ ConfIdle /\ PipeIdle /\ StepIdle

AssembleNext == assemble

SpecAssemble == AssembleInit /\ [][AssembleNext]_vars

\* ---------------------------------------------------------------------------
\* Properties of the assembler (SpecAssemble)
\* ---------------------------------------------------------------------------

Assembled == spc = "assembled"

\* the context is a quoted snippet of the remote classifier
HasPrefixMarker(classified_amount) ==
    /\ classified_amount.context # None
    /\ StartsWith(classified_amount.context, "text: '")

\* C26: a classified amount whose context begins with "text: '" has that
\* context as its source, unchanged; every other amount, the amounts with a
\* keyword or rule explanation of the fallback included, has the source the
\* search of the original text gives for its value.
C26_PrefixedContextReused ==
    Assembled =>
        \A i \in 1..Len(sin.amounts) :
            IF HasPrefixMarker(sin.amounts[i])
            THEN sout.result.amounts[i].source = sin.amounts[i].context
            ELSE \E up \in BOOLEAN :
                    sout.result.amounts[i].source =
                        find_source_context(sin.text, sin.amounts[i].value, 50, up)

\* a quoted snippet is reused although the document does not hold it, and an
\* amount with a keyword explanation gets a window of the document
C26_Witness ==
    /\ Assembled
    /\ Len(sin.amounts) = 2
    /\ sin.amounts[1].context = "text: 'Total: INR 1200'"
    /\ sin.amounts[2].context = "matched keywords: total"
    /\ ~Contains("INR 1200", sin.text)
    /\ sout.result.amounts[1].source = "text: 'Total: INR 1200'"
    /\ sout.result.amounts[2].source # "matched keywords: total"
    /\ Contains(sout.result.amounts[2].source, sin.text)

\* some rendering of the amount occurs in the text, whatever the case
Renders(text, amount) ==
    \E up \in BOOLEAN, k \in 1..9 :
        Contains(ToLower(amount_patterns(amount, up)[k]), ToLower(text))

Synthetic(amount) == "Amount: " \o Signed(amount, RenderFloat(Magnitude(amount)))

\* C27: the search gives the string "Amount: <value>" only for a value none
\* of whose renderings occurs in the original text; a value that occurs has
\* a window of the text as its source.
C27_SyntheticOnlyWhenAbsent ==
    Assembled =>
        \A i \in 1..Len(sin.amounts) :
            (/\ ~HasPrefixMarker(sin.amounts[i])
             /\ Renders(sin.text, sin.amounts[i].value))
                => sout.result.amounts[i].source # Synthetic(sin.amounts[i].value)

\* C28: the assembler returns status ok with one entry per classified
\* amount, in the same order and with the same value and name, whatever its
\* self-check reports (errors such as a negative value, or the warning about
\* duplicate values); a currency outside INR, USD, EUR is replaced by INR.
C28_ResultNeverBlocked ==
    Assembled =>
        /\ sout.result.status = "ok"
        /\ Len(sout.result.amounts) = Len(sin.amounts)
        /\ \A i \in 1..Len(sin.amounts) :
              /\ sout.result.amounts[i].value = sin.amounts[i].value
              /\ sout.result.amounts[i].name = sin.amounts[i].name
        /\ sout.result.currency =
              (IF sin.currency \in {"INR", "USD", "EUR"} THEN sin.currency ELSE "INR")

\* the self-check fails on a negative value given twice and warns of the
\* duplicate, the currency is not a valid one, and both entries are returned
C28_Witness ==
    /\ Assembled
    /\ ~sout.validation.is_valid
    /\ sout.validation.duplicates
    /\ sin.currency = "GBP"
    /\ Len(sin.amounts) = 2
    /\ sin.amounts[1].value < 0
    /\ sin.amounts[2].value = sin.amounts[1].value
    /\ Len(sout.result.amounts) = 2
    /\ sout.result.currency = "INR"

\* ---------------------------------------------------------------------------
\* Properties of text requests (Spec)
\* ---------------------------------------------------------------------------

\* C29: for a text request with at least one extracted token the extraction
\* confidence is at least 0.7, and the request never ends with status
\* low_confidence: it ends with no_amounts_found, normalization_failed,
\* error or a final result.
C29_TextNeverLowConfidence ==
    (pc # "start" /\ ~file) =>
        /\ (Extracted /\ ocr_result.raw_tokens # <<>>) => ocr_result.confidence >= 70
        /\ pc = "done" =>
              \/ returned.kind = "final"
              \/ /\ returned.kind = "error"
                 /\ returned.status \in {"no_amounts_found", "normalization_failed", "error"}

\* a text with one token and no medical word has confidence 0.7 exactly and
\* goes on to normalization, which fails
C29_Witness ==
    /\ pc = "done"
    /\ ~file
    /\ Len(ocr_result.raw_tokens) = 1
    /\ ocr_result.confidence = 70
    /\ returned.status = "normalization_failed"

\* ---------------------------------------------------------------------------
\* Properties of an empty remote answer (Spec)
\* ---------------------------------------------------------------------------

\* the remote answer is a JSON object without an entry that has both a value
\* and a type
NoAcceptedEntry(response) ==
    /\ response.kind = "object"
    /\ \/ response.amounts_kind = "absent"
       \/ /\ response.amounts_kind = "list"
          /\ \A i \in 1..Len(response.items) :
                ~response.items[i].has_value \/ ~response.items[i].has_type

\* C30: when the remote answer is a JSON object without an accepted entry
\* (no amounts key, an empty list, or only entries lacking value or type),
\* the remote path counts as successful and the fallback is not run, the
\* classification has no amounts and confidence 0, and the request ends with
\* a final result of status ok without amounts, although the normalizer
\* produced at least one amount.
C30_EmptyRemoteAnswerIsFinal ==
    (ClassifierRan /\ NoAcceptedEntry(gemini_response)) =>
        /\ normalization_result.normalized_amounts # <<>>
        /\ ~classification_result.raised
        /\ classification_result.used_gemini
        /\ classification_result.calls = <<"classify_with_gemini">>
        /\ classification_result.amounts = <<>>
        /\ classification_result.confidence = 0
        /\ pc \in {"classified", "done"}
        /\ pc = "done" =>
              /\ returned.kind = "final"
              /\ returned.status = "ok"
              /\ returned.amounts = <<>>

\* three amounts were normalized, the remote answer held one entry without
\* a type, and the request ended with an empty final result
C30_Witness ==
    /\ pc = "done"
    /\ Len(normalization_result.normalized_amounts) = 3
    /\ gemini_response.kind = "object"
    /\ gemini_response.amounts_kind = "list"
    /\ Len(gemini_response.items) = 1
    /\ ~gemini_response.items[1].has_type
    /\ classification_result.used_gemini
    /\ returned.kind = "final"
    /\ returned.amounts = <<>>

====
